---- MODULE Spec2Model ----
(***************************************************************************)
(* State-machine model of CensorLab (SPIN-UMass/censorlab): flow keys,     *)
(* the NFQ packet pipeline with the per-flow script policy, the reset      *)
(* builder, the per-flow program environment and the Delayer task.         *)
(***************************************************************************)
EXTENDS Integers, Sequences, FiniteSets, TLC

VARIABLES
    keyIn,          \* inputs of ConnectionKey::new (pure-function check)
    keyOut,         \* keys computed for the packet and for its reverse
    cfg,            \* Censor configuration and NFQ context, fixed after start
    connections,    \* TransportState.connections: ConnectionKey -> ConnectionInfo
    last,           \* outcome of the last packet handled by the run_nfq loop
    npackets,       \* run_nfq: packet_num
    passed,         \* history: keys of the packets that passed the list filters
    errored,        \* history: keys of the flows whose policy raised an error
    penv,           \* a tcp::ProgramEnv (censorlang environment of one flow)
    plast,          \* outcome of the last ProgramEnv::process call
    queue,          \* Delayer: mpsc channel from delay_packet to run_thread
    next_packet,    \* run_thread: the armed packet
    packet_queue,   \* run_thread: BinaryHeap of waiting packets
    sleep_until,    \* run_thread: deadline of sleep_fut
    now,            \* the clock
    submitted,      \* history: the packets submitted with delay_packet, in order
    transmitted,    \* history: payloads written to the raw socket, and when
    dstate,         \* "running", "closing" (sender dropped), "ended", "aborted"
    dlast,          \* history: the select! branch run_thread took last
    pvm,            \* a Program, its optimised form and a flow run with each
    mw,             \* the model thread, its channel and the flows' Model handles
    orch,           \* Censor::run with the control channel, IPC and signal tasks
    ipt,            \* an iptables chain and the rule CensorLab activates in it
    lst,            \* an AllowBlockList, two values and what recommend returns
    dirn,           \* a client IP, an IP packet and the direction derived for it
    nq,             \* run_nfq: the two queues, the loop's position, what it did
    wire,           \* run_wire: the interfaces, the retry buffers, what was sent
    vmu             \* the program VM: one register write, field read or operation

vars == <<keyIn, keyOut, cfg, connections, last, npackets, passed, errored,
          penv, plast, queue, next_packet, packet_queue, sleep_until, now,
          submitted, transmitted, dstate, dlast, pvm, mw, orch, ipt, lst, dirn, nq,
          wire, vmu>>

keyVars == <<keyIn, keyOut>>
nfqVars == <<cfg, connections, last, npackets, passed, errored>>
envVars == <<penv, plast>>
delayVars == <<queue, next_packet, packet_queue, sleep_until, now,
               submitted, transmitted, dstate, dlast>>
restVars == <<wire, vmu>>
unitVars == <<lst, dirn, nq, restVars>>
extVars == <<pvm, mw, orch, ipt, unitVars>>
coreVars == <<keyVars, nfqVars, envVars, delayVars>>

\* Option<u16>::None of an IP identification
NoIpid == -1

-----------------------------------------------------------------------------
(* Bounds and input sets *)

\* IP addresses, ordered as smoltcp's IpAddress orders them within a version
MaxIp == 2
IPs == 1..MaxIp
Ports == {80, 45000}
Protos == {"Tcp", "Udp"}

-----------------------------------------------------------------------------
(* transport.rs: ConnectionKey *)

IpPair(ver, src, dst) == [ver |-> ver, src |-> src, dst |-> dst]

\* IpPair::swap
IpPairSwap(ips) == [ver |-> ips.ver, src |-> ips.dst, dst |-> ips.src]

\* ConnectionKey::new
ConnectionKeyNew(ips, port_1, port_2, proto) ==
    IF ips.src <= ips.dst
    THEN [addr_low |-> ips.src, addr_high |-> ips.dst,
          port_low |-> port_1, port_high |-> port_2, proto |-> proto]
    ELSE [addr_low |-> ips.dst, addr_high |-> ips.src,
          port_low |-> port_2, port_high |-> port_1, proto |-> proto]

-----------------------------------------------------------------------------
(* censor/mod.rs: Action, allow/block lists *)

Act(t) == [type |-> t]

\* Action::from_str("reset"): the Reset a configured list carries
ListReset ==
    [type |-> "Reset", src_mac |-> 0, dst_mac |-> 0, ips |-> IpPair(4, 0, 0),
     ipid |-> NoIpid, src_port |-> 0, dst_port |-> 0, seq |-> 0, ack |-> 0,
     payload_len |-> 0]

\* Option<Action>: None of the Option is NoRecommend
NoRecommend == [type |-> "NoRecommend"]

IsContinue(r) == r = NoRecommend \/ r = Act("None")

\* BlockList::recommend
BlockListRecommend(list, value) ==
    IF value \in list.store THEN list.action ELSE NoRecommend

\* AllowList::recommend
AllowListRecommend(list, value) ==
    IF value \in list.store THEN NoRecommend ELSE list.action

\* A mutant of AllowBlockList::recommend: the allowlist is consulted first
AllowBlockListRecommendAllowFirst(abl, value) ==
    LET a == AllowListRecommend(abl.allow, value)
    IN IF IsContinue(a) THEN BlockListRecommend(abl.block, value) ELSE a

\* AllowBlockList::recommend
AllowBlockListRecommend(abl, value) ==
    LET b == BlockListRecommend(abl.block, value)
    IN IF IsContinue(b) THEN AllowListRecommend(abl.allow, value) ELSE b

\* A mutant of recommend_either: the second value is consulted first
RecommendEitherSecondFirst(abl, val_1, val_2) ==
    LET r == AllowBlockListRecommend(abl, val_2)
    IN IF IsContinue(r) THEN AllowBlockListRecommend(abl, val_1) ELSE r

\* A mutant of recommend_either: a value that may continue decides
RecommendEitherAnyPasses(abl, val_1, val_2) ==
    LET r == AllowBlockListRecommend(abl, val_1)
    IN IF IsContinue(r) THEN r ELSE AllowBlockListRecommend(abl, val_2)

\* RecommendList::recommend_either
RecommendEither(abl, val_1, val_2) ==
    LET r == AllowBlockListRecommend(abl, val_1)
    IN IF IsContinue(r) THEN AllowBlockListRecommend(abl, val_2) ELSE r

\* Action::add_ipid
AddIpid(action, ipid) ==
    IF action.type = "Reset" THEN [action EXCEPT !.ipid = ipid] ELSE action

-----------------------------------------------------------------------------
(* smoltcp TcpSeqNumber: an i32 with wrapping addition *)

MaxI32 == 2147483647
MinI32 == -MaxI32 - 1

\* TcpSeqNumber + usize (rhs <= i32::MAX): self.0.wrapping_add(rhs as i32)
SeqAdd(seq, n) ==
    IF seq > MaxI32 - n THEN MinI32 + (n - (MaxI32 - seq) - 1) ELSE seq + n

-----------------------------------------------------------------------------
(* The script policy: strings returned by process(packet) *)

UpperChars == <<"A", "D", "E", "I", "J", "L", "O", "P", "R", "S", "T", "W">>
LowerChars == <<"a", "d", "e", "i", "j", "l", "o", "p", "r", "s", "t", "w">>

\* char::to_lowercase on the characters the model uses
ToLowerChar(c) ==
    IF \E i \in 1..Len(UpperChars) : UpperChars[i] = c
    THEN LowerChars[CHOOSE i \in 1..Len(UpperChars) : UpperChars[i] = c]
    ELSE c

\* A mutant of str::to_lowercase: the string is compared as returned
ToLowercaseAsIs(s) == s

\* str::to_lowercase
ToLowercase(s) == [i \in 1..Len(s) |-> ToLowerChar(s[i])]

\* str::starts_with
StartsWith(s, prefix) ==
    Len(s) >= Len(prefix) /\ SubSeq(s, 1, Len(prefix)) = prefix

StrAllow == <<"a", "l", "l", "o", "w">>
StrDrop == <<"d", "r", "o", "p">>
StrReset == <<"r", "e", "s", "e", "t">>
StrInject == <<"i", "n", "j", "e", "c", "t">>

\* Strings a script may return
Strings ==
    { StrAllow, <<"A", "L", "L", "O", "W">>,
      StrDrop, <<"D", "r", "o", "p">>,
      StrReset, <<"R", "E", "S", "e", "t">>,
      <<"I", "n", "j", "e", "c", "t", " ", "x">>,
      <<"r", "e", "s", "e", "t", "s">>, << >> }

NoResult == [t |-> "none"]

\* Outcomes of process_callable.invoke((pkt,), vm): a string, a value that is
\* no string, an exception raised by the script, an exception raised by
\* Model.evaluate (failed model request) and not caught by the script
ProcessOutcomes ==
    {[t |-> "str", s |-> s] : s \in Strings}
        \cup {[t |-> "nonstr"], [t |-> "exc"], [t |-> "model_err"]}

\* Outcomes of running the init script on a fresh scope: whether it raises,
\* what it leaves bound to `process`, whether it deletes `packet`
InitOutcomes ==
    { io \in [raises : BOOLEAN, binds : {"unbound", "callable", "other"},
              del_packet : BOOLEAN] :
        io.del_packet => (~io.raises /\ io.binds = "callable") }

\* A script whose init binds process and whose process returns a verdict
InitBindsProcess == [raises |-> FALSE, binds |-> "callable", del_packet |-> FALSE]
ReturnsAllow == [t |-> "str", s |-> StrAllow]
ReturnsReset == [t |-> "str", s |-> StrReset]

-----------------------------------------------------------------------------
(* transport.rs: TransportState::process *)

\* Effect of the init script on the flow's scope (its bindings stay when it
\* raises part-way)
InitEffect(scope, io) ==
    [scope EXCEPT !.process = io.binds, !.packet = ~io.del_packet]

\* The bindings that outlive the call: `packet` is bound anew by every call
Kept(scope) == [process |-> scope.process, model |-> scope.model]

\* A mutant of the match: a failed call of process drops the packet
ResultToActionDropOnError(po, pkt, ips) ==
    IF po.t = "str"
    THEN LET lower == ToLowercase(po.s)
         IN IF lower = StrReset
            THEN IF pkt.proto = "Tcp"
                 THEN [type |-> "Reset", src_mac |-> 0, dst_mac |-> 0,
                       ips |-> ips, ipid |-> NoIpid,
                       src_port |-> pkt.sport, dst_port |-> pkt.dport,
                       seq |-> pkt.seq, ack |-> pkt.ack,
                       payload_len |-> pkt.len]
                 ELSE Act("Drop")
            ELSE IF lower = StrDrop THEN Act("Drop")
            ELSE IF lower = StrAllow THEN Act("None")
            ELSE IF StartsWith(lower, StrInject) THEN Act("None")
            ELSE Act("None")
    ELSE IF po.t \in {"exc", "model_err"} THEN Act("Drop")
    ELSE Act("None")

\* The match on s.to_lowercase() and on the result of invoke
ResultToAction(po, pkt, ips) ==
    IF po.t = "str"
    THEN LET lower == ToLowercase(po.s)
         IN IF lower = StrReset
            THEN IF pkt.proto = "Tcp"
                 THEN [type |-> "Reset", src_mac |-> 0, dst_mac |-> 0,
                       ips |-> ips, ipid |-> NoIpid,
                       src_port |-> pkt.sport, dst_port |-> pkt.dport,
                       seq |-> pkt.seq, ack |-> pkt.ack,
                       payload_len |-> pkt.len]
                 ELSE Act("Drop")
            ELSE IF lower = StrDrop THEN Act("Drop")
            ELSE IF lower = StrAllow THEN Act("None")
            ELSE IF StartsWith(lower, StrInject) THEN Act("None")
            ELSE Act("None")
    ELSE Act("None")

NoLookup == [process |-> "unbound", packet |-> FALSE]

\* A mutant of the closure: an init script that raises does not end the call
RunScopeNoEarlyReturn(scope, is_first_cl, pkt, ips, io, po) ==
    LET s0 == scope @@ [packet |-> TRUE]
        s1 == IF is_first_cl
              THEN [InitEffect(s0, io) EXCEPT !.model = TRUE]
              ELSE s0
        t1 == IF is_first_cl
              THEN <<"set_packet", "init", "bind_model">>
              ELSE <<"set_packet">>
        i1 == IF ~is_first_cl THEN "skipped"
              ELSE IF io.raises THEN "raised" ELSE "ok"
    IN IF s1.process = "callable" /\ s1.packet
       THEN [scope |-> s1, init |-> i1, trace |-> Append(t1, "process"),
             lookup |-> [process |-> s1.process, packet |-> s1.packet],
             result |-> po, action |-> ResultToAction(po, pkt, ips)]
       ELSE [scope |-> s1, init |-> i1, trace |-> t1,
             lookup |-> [process |-> s1.process, packet |-> s1.packet],
             result |-> NoResult, action |-> Act("None")]

\* The closure run by vm.enter for one packet on the flow's scope.
\* trace lists the host's steps in order; lookup is what the scope binds to
\* `process` and whether it binds `packet` when the closure ends or looks
\* them up.
RunScope(scope, is_first_cl, pkt, ips, io, po) ==
    LET s0 == scope @@ [packet |-> TRUE]
    IN IF is_first_cl /\ io.raises
       THEN [scope |-> InitEffect(s0, io), init |-> "raised",
             trace |-> <<"set_packet", "init">>,
             lookup |-> [process |-> io.binds, packet |-> ~io.del_packet],
             result |-> NoResult, action |-> Act("None")]
       ELSE LET s1 == IF is_first_cl
                      THEN [InitEffect(s0, io) EXCEPT !.model = TRUE]
                      ELSE s0
                t1 == IF is_first_cl
                      THEN <<"set_packet", "init", "bind_model">>
                      ELSE <<"set_packet">>
                i1 == IF is_first_cl THEN "ok" ELSE "skipped"
            IN IF s1.process = "callable" /\ s1.packet
               THEN [scope |-> s1, init |-> i1,
                     trace |-> Append(t1, "process"),
                     lookup |-> [process |-> s1.process, packet |-> s1.packet],
                     result |-> po, action |-> ResultToAction(po, pkt, ips)]
               ELSE [scope |-> s1, init |-> i1, trace |-> t1,
                     lookup |-> [process |-> s1.process, packet |-> s1.packet],
                     result |-> NoResult, action |-> Act("None")]

\* vm.new_scope_with_builtins()
NewScope == [process |-> "unbound", model |-> FALSE]

\* tcp::ProgramEnv::new / udp::ProgramEnv::new
ProgramEnvNew(id) ==
    [init_id |-> id, default_action |-> "Allow", total_processed |-> 0,
     last_fully_processed |-> 0, num_packets |-> 0,
     fin_ack_from |-> FALSE, fin_ack_to |-> FALSE,
     has_received_first_data_packet |-> FALSE, registers |-> 0]

\* Packet::connection_identifier
ConnectionIdentifier(pkt) ==
    [ips |-> <<pkt.src, pkt.dst>>, transport_proto |-> pkt.proto,
     ports |-> <<pkt.sport, pkt.dport>>]

\* The ConnectionInfo that or_insert_with builds; inits counts the runs of
\* the init script on the entry and raised tells whether one raised (history)
NewConnectionInfo(mode, pkt) ==
    [env |-> IF mode = "Python"
             THEN [t |-> "Python", scope |-> NewScope]
             ELSE [t |-> "CensorLang",
                   env |-> ProgramEnvNew(ConnectionIdentifier(pkt))],
     is_first |-> TRUE, inits |-> 0, raised |-> FALSE]

PacketIps(pkt) == IpPair(pkt.ver, pkt.src, pkt.dst)

PacketKey(pkt) ==
    ConnectionKeyNew(PacketIps(pkt), pkt.sport, pkt.dport, pkt.proto)

\* A mutant of TransportState::process: is_first is not cleared
TransportStateProcessKeepsFirst(conns, mode, pkt, io, po) ==
    LET ips == PacketIps(pkt)
        key == PacketKey(pkt)
        info == IF key \in DOMAIN conns THEN conns[key]
                ELSE NewConnectionInfo(mode, pkt)
    IN IF info.env.t = "Python"
       THEN LET r == RunScope(info.env.scope, info.is_first, pkt, ips, io, po)
            IN [key |-> key, first |-> info.is_first, init |-> r.init,
                trace |-> r.trace, lookup |-> r.lookup,
                result |-> r.result, action |-> r.action,
                info |-> [env |-> [t |-> "Python", scope |-> Kept(r.scope)],
                          is_first |-> info.is_first,
                          inits |-> info.inits
                                      + (IF r.init = "skipped" THEN 0 ELSE 1),
                          raised |-> info.raised \/ r.init = "raised"]]
       ELSE [key |-> key, first |-> info.is_first, init |-> "skipped",
             trace |-> << >>, lookup |-> NoLookup,
             result |-> NoResult, action |-> Act("None"),
             info |-> info]

\* TransportState::process: the entry of the packet's key after the call and
\* what the call did
TransportStateProcess(conns, mode, pkt, io, po) ==
    LET ips == PacketIps(pkt)
        key == PacketKey(pkt)
        info == IF key \in DOMAIN conns THEN conns[key]
                ELSE NewConnectionInfo(mode, pkt)
    IN IF info.env.t = "Python"
       THEN LET r == RunScope(info.env.scope, info.is_first, pkt, ips, io, po)
            IN [key |-> key, first |-> info.is_first, init |-> r.init,
                trace |-> r.trace, lookup |-> r.lookup,
                result |-> r.result, action |-> r.action,
                info |-> [env |-> [t |-> "Python", scope |-> Kept(r.scope)],
                          is_first |-> FALSE,
                          inits |-> info.inits
                                      + (IF r.init = "skipped" THEN 0 ELSE 1),
                          raised |-> info.raised \/ r.init = "raised"]]
       ELSE [key |-> key, first |-> info.is_first, init |-> "skipped",
             trace |-> << >>, lookup |-> NoLookup,
             result |-> NoResult, action |-> Act("None"),
             info |-> [info EXCEPT !.is_first = FALSE]]

-----------------------------------------------------------------------------
(* transport.rs: construct_reset, fill_reset; censor/nfq.rs: craft_resets *)

\* fill_reset: the TCP header of a reset
FillReset(ips, src_port, dst_port, ack, seq) ==
    [src_port |-> src_port, dst_port |-> dst_port,
     ack_number |-> ack, seq_number |-> seq, flags |-> {"ACK", "RST"}]

\* construct_reset: Ethernet + IP + TCP
ConstructReset(src_mac, dst_mac, ips, ipid, src_port, dst_port, ack, seq) ==
    [kind |-> "reset", eth_src |-> src_mac, eth_dst |-> dst_mac,
     ethertype |-> ips.ver, ip_src |-> ips.src, ip_dst |-> ips.dst,
     ident |-> IF ips.ver = 4 /\ ipid # NoIpid THEN ipid ELSE 0,
     tcp |-> FillReset(ips, src_port, dst_port, ack, seq)]

\* Censor::craft_resets: the 7th parameter is named ack, the 8th seq
CraftResets(src_mac, dst_mac, ips, ipid, src_port, dst_port, ack, seq, payload_len) ==
    [client |-> ConstructReset(dst_mac, src_mac, IpPairSwap(ips), ipid,
                               dst_port, src_port, SeqAdd(seq, payload_len), ack),
     server |-> ConstructReset(src_mac, dst_mac, ips, ipid,
                               src_port, dst_port, ack, seq)]

\* Args::reset_repeat (5 by default)
ResetRepeat == 2

\* run_nfq, Action::Reset arm: MAC of one address (ARP cache, then the
\* default route's MAC unless the address is the client's, else zero)
ResolveMac(c, ver, ip) ==
    IF ver # 4 THEN 0
    ELSE IF ip \in DOMAIN c.arp /\ c.arp[ip] # 0 THEN c.arp[ip]
    ELSE IF ip # c.client_ip THEN c.default_route_mac
    ELSE 0

\* run_nfq, Action::Reset arm: the two frames, from the fields of the action.
\* The call passes (.., seq, ack, payload_len) in this order.
NfqResets(c, a) ==
    CraftResets(ResolveMac(c, a.ips.ver, a.ips.src),
                ResolveMac(c, a.ips.ver, a.ips.dst),
                a.ips, a.ipid, a.src_port, a.dst_port,
                a.seq, a.ack, a.payload_len)

\* A mutant of the reset loop: the two frames are written once
ResetFramesOnce(resets, n) ==
    IF n = 0 THEN << >> ELSE <<resets.client, resets.server>>

\* The frames written to the raw socket for a Reset: client, server, repeated
RECURSIVE ResetFrames(_, _)
ResetFrames(resets, n) ==
    IF n = 0 THEN << >>
    ELSE <<resets.client, resets.server>> \o ResetFrames(resets, n - 1)

-----------------------------------------------------------------------------
(* censor/mod.rs: the pipeline from process_frame_payload down *)

\* A mutant of the direction: the destination is compared first
DeriveDirectionDstFirst(c, pkt) ==
    IF c.client_ip_ver # pkt.ver THEN "Unknown"
    ELSE IF pkt.dst = c.client_ip THEN "WanToClient"
    ELSE IF pkt.src = c.client_ip THEN "ClientToWan"
    ELSE "Unknown"

\* process_ipv4 / process_ipv6: direction from the client IP
DeriveDirection(c, pkt) ==
    IF c.client_ip_ver # pkt.ver THEN "Unknown"
    ELSE IF pkt.src = c.client_ip THEN "ClientToWan"
    ELSE IF pkt.dst = c.client_ip THEN "WanToClient"
    ELSE "Unknown"

NoInfo == [t |-> "NoInfo"]
NoKey == [proto |-> "NoKey"]
NoDelay == [type |-> "NoDelay"]

\* A mutant of process_transport: the flow table is consulted before the list
ProcessTransportNoShortCircuit(c, conns, pkt, io, po) ==
    LET rec == RecommendEither(c.tcp_port_list, pkt.sport, pkt.dport)
        t == TransportStateProcess(conns, c.execution_mode, pkt, io, po)
    IN IF IsContinue(rec)
       THEN t @@ [stage |-> "policy"]
       ELSE [t EXCEPT !.action = rec] @@ [stage |-> "list"]

\* Censor::process_transport
ProcessTransport(c, conns, pkt, io, po) ==
    LET rec == RecommendEither(c.tcp_port_list, pkt.sport, pkt.dport)
    IN IF IsContinue(rec)
       THEN TransportStateProcess(conns, c.execution_mode, pkt, io, po)
                @@ [stage |-> "policy"]
       ELSE [stage |-> "list", key |-> PacketKey(pkt), first |-> FALSE,
             init |-> "skipped", trace |-> << >>, lookup |-> NoLookup,
             result |-> NoResult, action |-> rec, info |-> NoInfo]

\* The ethertype the frame was received with
EtherTypeOf(frame) ==
    CASE frame.kind = "arp" -> "Arp"
      [] frame.kind = "ethertype" -> "Unknown"
      [] OTHER -> IF frame.ver = 4 THEN "Ipv4" ELSE "Ipv6"

\* The next header of an IP frame
NextHeaderOf(frame) ==
    CASE frame.kind = "transport" -> frame.proto
      [] frame.kind = "icmp" -> "Icmp"
      [] OTHER -> "Unknown"

\* Packet::from_ts_bytes: the IP header is checked first, then the next header
\* must be TCP or UDP and parse as such
PacketFromTsBytes(frame) ==
    IF EtherTypeOf(frame) \notin {"Ipv4", "Ipv6"} THEN "UnknownInternet"
    ELSE IF frame.kind = "truncated" THEN "Truncated"
    ELSE IF NextHeaderOf(frame) \notin {"Tcp", "Udp"} THEN "UnknownTransport"
    ELSE "Ok"

\* The result of a stage that settles the frame without the flow table
Settled(stage, action) ==
    [stage |-> stage, key |-> NoKey, first |-> FALSE,
     init |-> "skipped", trace |-> << >>, lookup |-> NoLookup,
     result |-> NoResult, action |-> action, info |-> NoInfo]

\* Censor::process_arp
ProcessArp(c) == Settled("arp", c.arp_action)

\* Censor::process_icmp
ProcessIcmp(c) == Settled("icmp", c.icmp_action)

\* Censor::process_ip: dispatch on the next header
ProcessIpNextHeader(c, conns, pkt, io, po) ==
    CASE NextHeaderOf(pkt) \in {"Tcp", "Udp"} ->
             ProcessTransport(c, conns, pkt, io, po)
      [] NextHeaderOf(pkt) = "Icmp" -> ProcessIcmp(c)
      [] OTHER -> Settled("ip_unknown", c.ip_unknown)

\* Censor::process_ipv4 and process_ipv6 (through process_ip)
ProcessIp(c, conns, pkt, io, po) ==
    LET r == ProcessIpNextHeader(c, conns, pkt, io, po)
    IN IF pkt.ver = 4
       THEN [r EXCEPT !.action = AddIpid(r.action, pkt.ident)]
       ELSE r

\* Censor::process_frame_payload: a frame that Packet::from_ts_bytes rejects
\* yields the default action; a Delay is handed to the Delayer and becomes Drop
ProcessFramePayload(c, conns, frame, io, po) ==
    IF PacketFromTsBytes(frame) = "Ok"
    THEN LET r == CASE EtherTypeOf(frame) \in {"Ipv4", "Ipv6"} ->
                           ProcessIp(c, conns, frame, io, po)
                    [] EtherTypeOf(frame) = "Arp" -> ProcessArp(c)
                    [] OTHER -> Settled("ethernet_unknown", c.ethernet_unknown)
         IN IF r.action.type = "Delay"
            THEN [r EXCEPT !.action = Act("Drop")] @@ [delay |-> r.action]
            ELSE r @@ [delay |-> NoDelay]
    ELSE Settled("unparsed", Act("None")) @@ [delay |-> NoDelay]

\* A mutant of the verdict: Ignore is dropped
VerdictDropsIgnore(action) ==
    IF action.type \in {"None", "Reset"} THEN "Accept" ELSE "Drop"

\* run_nfq: the verdict set on the message for an action
Verdict(action) ==
    IF action.type \in {"None", "Ignore", "Reset"} THEN "Accept" ELSE "Drop"

-----------------------------------------------------------------------------
(* program/env.rs: ProgramEnv::process over tcp::ProgramEnv::process *)

\* ConnectionIdentifier::direction
IdDirection(id, other) ==
    IF id.ips = other.ips /\ id.ports = other.ports THEN "FromInitiator"
    ELSE IF id.ips[1] = other.ips[2] /\ id.ips[2] = other.ips[1]
            /\ id.ports[1] = other.ports[2] /\ id.ports[2] = other.ports[1]
    THEN "ToInitiator"
    ELSE "NoDirection"

\* tcp::Hidden::process and udp::Hidden::process
HiddenProcess(env, pkt, direction) ==
    LET tcp == pkt.proto = "Tcp"
    IN [env EXCEPT
          !.fin_ack_from = @ \/ (tcp /\ pkt.finack /\ direction = "FromInitiator"),
          !.fin_ack_to = @ \/ (tcp /\ pkt.finack /\ direction = "ToInitiator"),
          !.has_received_first_data_packet = @ \/ (pkt.len > 0)]

\* ProgramEnv::process without the match on the latched default action
ProgramEnvProcessNoLatch(env, pkt, run, wrote) ==
    LET e0 == [env EXCEPT !.num_packets = @ + 1, !.total_processed = @ + 1]
        direction == IdDirection(e0.init_id, ConnectionIdentifier(pkt))
        runs == pkt.proto = e0.init_id.transport_proto /\ direction # "NoDirection"
        e1 == IF runs
              THEN LET h == HiddenProcess(e0, pkt, direction)
                       w == [h EXCEPT !.registers = IF wrote THEN @ + 1 ELSE @]
                   IN IF run \in {"AllowAll", "TerminateAll"}
                      THEN [w EXCEPT !.default_action = run]
                      ELSE w
              ELSE e0
        e2 == [e1 EXCEPT !.last_fully_processed = @ + 1]
    IN [env |-> e2, action |-> e2.default_action, ran |-> runs]

\* ProgramEnv::process, tcp::ProgramEnv::process and udp::ProgramEnv::process:
\* run is the result of Program::run on the packet, wrote tells whether that
\* run changed a register; ran tells whether Program::run was reached
ProgramEnvProcess(env, pkt, run, wrote) ==
    LET e0 == [env EXCEPT !.num_packets = @ + 1, !.total_processed = @ + 1]
        direction == IdDirection(e0.init_id, ConnectionIdentifier(pkt))
        runs == pkt.proto = e0.init_id.transport_proto /\ direction # "NoDirection"
    IN IF e0.default_action = "AllowAll"
       THEN [env |-> e0, action |-> "Allow", ran |-> FALSE]
       ELSE IF e0.default_action = "TerminateAll"
       THEN [env |-> e0, action |-> "TerminateAll", ran |-> FALSE]
       ELSE LET e1 == IF runs
                      THEN LET h == HiddenProcess(e0, pkt, direction)
                               w == [h EXCEPT !.registers =
                                                 IF wrote THEN @ + 1 ELSE @]
                           IN IF run \in {"AllowAll", "TerminateAll"}
                              THEN [w EXCEPT !.default_action = run]
                              ELSE w
                      ELSE e0
                e2 == [e1 EXCEPT !.last_fully_processed = @ + 1]
            IN [env |-> e2, action |-> e2.default_action, ran |-> runs]

\* Whether Program::run is reached for the packet
ProgramRuns(env, pkt) ==
    /\ env.default_action = "Allow"
    /\ pkt.proto = env.init_id.transport_proto
    /\ IdDirection(env.init_id, ConnectionIdentifier(pkt)) # "NoDirection"

RunResults == {"Allow", "AllowAll", "TerminateAll", "Err"}

-----------------------------------------------------------------------------
(* Inputs of the packet pipeline *)

MaxPackets == 2

TcpEndpoints ==
    { [ver |-> 4, src |-> 1, dst |-> 2, sport |-> 45000, dport |-> 80,
       seq |-> 7, ack |-> 11, len |-> 17],
      [ver |-> 4, src |-> 2, dst |-> 1, sport |-> 80, dport |-> 45000,
       seq |-> MaxI32, ack |-> 7, len |-> 17],
      [ver |-> 4, src |-> 1, dst |-> 2, sport |-> 45000, dport |-> 443,
       seq |-> 11, ack |-> MaxI32 - 3, len |-> 0],
      [ver |-> 6, src |-> 1, dst |-> 2, sport |-> 45000, dport |-> 80,
       seq |-> 7, ack |-> 11, len |-> 17] }

\* Frames that Packet::from_ts_bytes accepts: TCP and UDP over IPv4 and IPv6,
\* between a client (address 1, an ephemeral port) and a server (address 2)
TcpPackets ==
    { [kind |-> "transport", ver |-> e.ver, src |-> e.src, dst |-> e.dst,
       sport |-> e.sport, dport |-> e.dport, proto |-> "Tcp", ident |-> 5,
       seq |-> e.seq, ack |-> e.ack, len |-> e.len, finack |-> FALSE] :
      e \in TcpEndpoints }

UdpPackets ==
    { [kind |-> "transport", ver |-> 4, src |-> 1, dst |-> 2,
       sport |-> 45000, dport |-> 80, proto |-> "Udp", ident |-> 5,
       seq |-> 0, ack |-> 0, len |-> 17, finack |-> FALSE] }

Packets == TcpPackets \cup UdpPackets

\* Frames that are not TCP or UDP packets: ARP, an unknown ethertype, ICMP,
\* an IP packet with another next header, an IP packet with a truncated header
OtherFrames ==
    { [kind |-> "arp"], [kind |-> "ethertype"],
      [kind |-> "icmp", ver |-> 4, src |-> 1, dst |-> 2, ident |-> 5],
      [kind |-> "ipproto", ver |-> 6, src |-> 1, dst |-> 2, ident |-> 5],
      [kind |-> "truncated", ver |-> 4] }

\* Frames read from a queue
Frames == Packets \cup OtherFrames

DefaultList == [store |-> {}, action |-> Act("None")]

NoLists == [allow |-> DefaultList, block |-> DefaultList]

\* Configured TCP port lists
PortLists ==
    { NoLists,
      [allow |-> DefaultList, block |-> [store |-> {80}, action |-> Act("Drop")]],
      [allow |-> DefaultList, block |-> [store |-> {443}, action |-> ListReset]],
      [allow |-> [store |-> {443, 45000}, action |-> Act("Ignore")],
       block |-> DefaultList] }

\* NFQ context: the client is address 1 and is in the ARP cache; the server's
\* MAC is in the ARP table or not; the default route's MAC is known or not
ArpSetups ==
    { [arp |-> <<11, 12>>, default_route_mac |-> 99],
      [arp |-> <<11, 0>>, default_route_mac |-> 99],
      [arp |-> <<11, 0>>, default_route_mac |-> 0] }

\* Censor::new: the lists and layer actions of the configuration. The layer
\* actions are set to distinct actions; the lists other than the TCP port list
\* are empty unless a configuration below fills them
Config(m, sc, l, a) ==
    [execution_mode |-> m, script |-> sc, tcp_port_list |-> l, client_ip |-> 1,
     client_ip_ver |-> 4, arp |-> a.arp,
     default_route_mac |-> a.default_route_mac, reset_repeat |-> ResetRepeat,
     ethernet_unknown |-> Act("Drop"), arp_action |-> Act("Ignore"),
     icmp_action |-> Act("Drop"), ip_unknown |-> Act("Drop"),
     ipv4_list |-> NoLists, ipv6_list |-> NoLists,
     tcp_ip_port_list |-> NoLists, udp_port_list |-> NoLists,
     udp_ip_port_list |-> NoLists]

\* A blocklist that drops
DropList(store) ==
    [allow |-> DefaultList, block |-> [store |-> store, action |-> Act("Drop")]]

\* Configurations with other lists filled: the server's address on the IPv4
\* and IPv6 blocklists; port 80 on the UDP port blocklist and the server's
\* port 443 on the TCP ip-port blocklist
ListConfigs ==
    LET base == Config("Python", "verdict", NoLists,
                       [arp |-> <<11, 12>>, default_route_mac |-> 99])
    IN { [base EXCEPT !.ipv4_list = DropList({2}), !.ipv6_list = DropList({2})],
         [base EXCEPT !.udp_port_list = DropList({80}),
                      !.tcp_ip_port_list = DropList({<<2, 443>>})] }

\* Configurations: a script that answers allow or reset under every list and
\* ARP setup; an arbitrary script without lists; a censorlang program
Configs ==
    { Config("Python", "verdict", l, a) : l \in PortLists, a \in ArpSetups }
      \cup { Config("Python", "any", NoLists, a) :
               a \in {[arp |-> <<11, 12>>, default_route_mac |-> 99]} }
      \cup { Config("CensorLang", "none", NoLists, a) :
               a \in {[arp |-> <<11, 12>>, default_route_mac |-> 99]} }
      \cup ListConfigs

\* What the configured script can do when the host runs it
InitOutcomesOf(c) ==
    IF c.script = "any" THEN InitOutcomes ELSE {InitBindsProcess}

ProcessOutcomesOf(c) ==
    IF c.script = "any" THEN ProcessOutcomes ELSE {ReturnsAllow, ReturnsReset}

\* Packets handed to the censorlang environment of the flow 1:45000 -> 2:80
EnvPackets ==
    { [kind |-> "transport", ver |-> 4, src |-> e[1], dst |-> e[2],
       sport |-> e[3], dport |-> e[4], proto |-> e[5], ident |-> 5,
       seq |-> 7, ack |-> 11, len |-> e[6], finack |-> e[7]] :
      e \in {<<1, 2, 45000, 80, "Tcp", 17, FALSE>>,
             <<2, 1, 80, 45000, "Tcp", 0, TRUE>>,
             <<1, 2, 45000, 443, "Tcp", 17, FALSE>>,
             <<1, 2, 45000, 80, "Udp", 17, FALSE>>} }

-----------------------------------------------------------------------------
(* Initial states *)

NoFrame == [kind |-> "none"]

LastInit ==
    [frame |-> NoFrame, stage |-> "none", key |-> NoKey, first |-> FALSE,
     init |-> "skipped", trace |-> << >>, lookup |-> NoLookup,
     result |-> NoResult, action |-> Act("None"), verdict |-> "none",
     sent |-> << >>, before |-> << >>]

PlastInit == [pkt |-> NoFrame, run |-> "none", action |-> "none", ran |-> FALSE,
              before |-> NoInfo]

KeyIdle == /\ keyIn = [ips |-> IpPair(4, 1, 1), sport |-> 80, dport |-> 80,
                       proto |-> "Tcp"]
           /\ keyOut = [done |-> FALSE]

NfqInit == /\ cfg \in Configs
           /\ connections = << >>
           /\ last = LastInit
           /\ npackets = 0
           /\ passed = {}
           /\ errored = {}

NfqIdle == /\ cfg = Config("Python", "verdict", NoLists,
                           [arp |-> <<11, 12>>, default_route_mac |-> 99])
           /\ connections = << >>
           /\ last = LastInit
           /\ npackets = 0
           /\ passed = {}
           /\ errored = {}

EnvInit == /\ \E proto \in Protos :
                penv = ProgramEnvNew(
                          [ips |-> <<1, 2>>, transport_proto |-> proto,
                           ports |-> <<45000, 80>>])
           /\ plast = PlastInit

-----------------------------------------------------------------------------
(* run_nfq: one iteration of the loop body on a queue that holds a frame *)

\* What the script does when the host runs its init script (io) and calls
\* process (po); an outcome that the call does not consume is left fixed
InitOutcomesFor(c, conns, frame) ==
    IF ProcessFramePayload(c, conns, frame, InitBindsProcess, ReturnsAllow).init
           = "skipped"
    THEN {InitBindsProcess} ELSE InitOutcomesOf(c)

ProcessOutcomesFor(c, conns, frame, io) ==
    IF ProcessFramePayload(c, conns, frame, io, ReturnsAllow).result = NoResult
    THEN {ReturnsAllow} ELSE ProcessOutcomesOf(c)

NfqRecv ==
    /\ npackets + penv.total_processed < MaxPackets
    /\ \E frame \in Frames :
       \E io \in InitOutcomesFor(cfg, connections, frame) :
       \E po \in ProcessOutcomesFor(cfg, connections, frame, io) :
       \E r \in {ProcessFramePayload(cfg, connections, frame, io, po)} :
            /\ po.t = "model_err" => r.info.env.scope.model
            /\ connections' =
                 IF r.info = NoInfo THEN connections
                 ELSE [k \in DOMAIN connections \cup {r.key} |->
                         IF k = r.key THEN r.info ELSE connections[k]]
            /\ last' = [frame |-> frame, stage |-> r.stage, key |-> r.key,
                        first |-> r.first, init |-> r.init, trace |-> r.trace,
                        lookup |-> r.lookup,
                        result |-> r.result, action |-> r.action,
                        verdict |-> Verdict(r.action),
                        sent |-> IF r.action.type = "Reset"
                                 THEN ResetFrames(NfqResets(cfg, r.action),
                                                  cfg.reset_repeat)
                                 ELSE << >>,
                        before |-> connections]
            /\ npackets' = npackets + 1
            /\ passed' = IF /\ PacketFromTsBytes(frame) = "Ok"
                            /\ IsContinue(RecommendEither(cfg.tcp_port_list,
                                                          frame.sport, frame.dport))
                         THEN passed \cup {PacketKey(frame)}
                         ELSE passed
            /\ errored' = IF r.init = "raised" \/ r.result.t \in {"exc", "model_err"}
                          THEN errored \cup {r.key} ELSE errored
            /\ queue' = IF r.delay = NoDelay THEN queue
                        ELSE Append(queue, [time |-> r.delay.time, payload |-> 0])
    /\ UNCHANGED <<cfg, keyVars, envVars, extVars>>
    /\ UNCHANGED <<next_packet, packet_queue, sleep_until, now, submitted,
                   transmitted, dstate, dlast>>

\* ProgramEnv::process on the environment of a flow (censorlang mode); run is
\* the result of Program::run, consumed only when the program is run
\* The environment of one TCP flow, never handed a packet
EnvIdle == /\ penv = ProgramEnvNew(
                        [ips |-> <<1, 2>>, transport_proto |-> "Tcp",
                         ports |-> <<45000, 80>>])
           /\ plast = PlastInit

EnvProcess ==
    /\ cfg.execution_mode = "CensorLang"
    /\ npackets + penv.total_processed < MaxPackets
    /\ \E pkt \in EnvPackets, run \in RunResults, wrote \in BOOLEAN :
         \E r \in {ProgramEnvProcess(penv, pkt, run, wrote)} :
            /\ ~ProgramRuns(penv, pkt) => (run = "Allow" /\ ~wrote)
            /\ penv' = r.env
            /\ plast' = [pkt |-> pkt, run |-> run, action |-> r.action,
                         ran |-> r.ran, before |-> penv]
    /\ UNCHANGED <<nfqVars, keyVars, delayVars, extVars>>

-----------------------------------------------------------------------------
(* program/env.rs: the environment of one TCP flow over the flow's packets *)

MaxFlowPackets == 4

\* The TCP packets between 1:45000 and 2:80, both ways, with and without
\* FIN+ACK
FlowPackets ==
    { [kind |-> "transport", ver |-> 4, src |-> e[1], dst |-> e[2],
       sport |-> e[3], dport |-> e[4], proto |-> "Tcp", ident |-> 5,
       seq |-> 7, ack |-> 11, len |-> e[5], finack |-> e[6]] :
      e \in {<<1, 2, 45000, 80, 17, FALSE>>, <<1, 2, 45000, 80, 0, TRUE>>,
             <<2, 1, 80, 45000, 17, FALSE>>, <<2, 1, 80, 45000, 0, TRUE>>} }

\* tcp::ProgramEnv::is_finished over tcp::Hidden::is_finished
IsFinished(env) == env.fin_ack_from /\ env.fin_ack_to

\* The packet goes the way of the first packet of the flow, or the other way
SameWay(pkt, first) ==
    /\ pkt.src = first.src /\ pkt.sport = first.sport
    /\ pkt.dst = first.dst /\ pkt.dport = first.dport

OtherWay(pkt, first) ==
    /\ pkt.src = first.dst /\ pkt.sport = first.dport
    /\ pkt.dst = first.src /\ pkt.dport = first.sport

\* TransportState::new on the first packet of the flow: the environment is
\* made with the packet's connection identifier; plast keeps the first
\* packet and which FIN+ACK packets the flow has carried each way
FlowInit ==
    \E first \in FlowPackets :
       /\ penv = ProgramEnvNew(ConnectionIdentifier(first))
       /\ plast = [first |-> first, pkt |-> NoFrame, direction |-> "none",
                   run |-> "none", action |-> "none",
                   seen_from |-> FALSE, seen_to |-> FALSE,
                   was_finished |-> FALSE]

\* ProgramEnv::process on the next packet of the flow, the first packet
\* first; run is the result of Program::run, consumed only when the program
\* is run
FlowPacket ==
    /\ penv.total_processed < MaxFlowPackets
    /\ \E pkt \in FlowPackets, run \in RunResults :
         \E r \in {ProgramEnvProcess(penv, pkt, run, FALSE)} :
            /\ penv.total_processed = 0 => pkt = plast.first
            /\ ~ProgramRuns(penv, pkt) => run = "Allow"
            /\ penv' = r.env
            /\ plast' = [plast EXCEPT
                          !.pkt = pkt,
                          !.direction = IdDirection(penv.init_id,
                                                    ConnectionIdentifier(pkt)),
                          !.run = run,
                          !.action = r.action,
                          !.seen_from = @ \/ (pkt.finack /\ SameWay(pkt, plast.first)),
                          !.seen_to = @ \/ (pkt.finack /\ OtherWay(pkt, plast.first)),
                          !.was_finished = IsFinished(penv)]
    /\ UNCHANGED <<nfqVars, keyVars, delayVars, extVars>>

-----------------------------------------------------------------------------
(* transport.rs: the flow table over the packets of two TCP flows *)

\* The TCP packets between 1:45000 and 2:80 and between 1:45000 and 2:443,
\* both ways, with and without FIN+ACK
TablePackets ==
    { [kind |-> "transport", ver |-> 4, src |-> e[1], dst |-> e[2],
       sport |-> e[3], dport |-> e[4], proto |-> "Tcp", ident |-> 5,
       seq |-> 7, ack |-> 11, len |-> IF f THEN 0 ELSE 17, finack |-> f] :
      e \in {<<1, 2, 45000, 80>>, <<2, 1, 80, 45000>>,
             <<1, 2, 45000, 443>>, <<2, 1, 443, 45000>>},
      f \in BOOLEAN }

\* A script that answers allow or reset, and a censorlang program, without
\* lists
TableConfigs ==
    { Config(m[1], m[2], NoLists, [arp |-> <<11, 12>>, default_route_mac |-> 99]) :
        m \in {<<"Python", "verdict">>, <<"CensorLang", "none">>} }

\* What the program of the configuration decides for a packet
ProgramDecisions == {"Allow", "AllowAll", "TerminateAll"}

\* TransportState::new: an empty flow table. last.flows keeps, for every
\* key that got an entry, the packet that made it and which FIN+ACK packets
\* the flow has carried each way since
TableInit ==
    /\ cfg \in TableConfigs
    /\ connections = << >>
    /\ last = [pkt |-> NoFrame, key |-> NoKey, first |-> FALSE,
               init |-> "skipped", action |-> Act("None"), run |-> "none",
               before |-> NoInfo, flows |-> << >>]
    /\ npackets = 0
    /\ passed = {}
    /\ errored = {}

\* The history of the flow of key after pkt
FlowSeen(flows, key, pkt) ==
    IF key \in DOMAIN flows
    THEN [flows[key] EXCEPT
            !.seen_from = @ \/ (pkt.finack /\ SameWay(pkt, flows[key].first)),
            !.seen_to = @ \/ (pkt.finack /\ OtherWay(pkt, flows[key].first))]
    ELSE [first |-> pkt, seen_from |-> pkt.finack, seen_to |-> FALSE]

\* process_frame_payload on a packet of one of the flows; run is what the
\* program of a censorlang configuration decides for the packet
TablePacket ==
    \E pkt \in TablePackets, po \in ProcessOutcomesOf(cfg), run \in ProgramDecisions :
       \E r \in {ProcessFramePayload(cfg, connections, pkt, InitBindsProcess, po)} :
          /\ cfg.execution_mode = "Python" => run = "Allow"
          /\ cfg.execution_mode = "CensorLang" => po = ReturnsAllow
          /\ connections' =
               IF r.info = NoInfo THEN connections
               ELSE [k \in DOMAIN connections \cup {r.key} |->
                       IF k = r.key THEN r.info ELSE connections[k]]
          /\ last' = [pkt |-> pkt, key |-> r.key, first |-> r.first,
                      init |-> r.init, action |-> r.action, run |-> run,
                      before |-> IF r.key \in DOMAIN connections
                                 THEN connections[r.key] ELSE NoInfo,
                      flows |-> [k \in DOMAIN last.flows \cup {r.key} |->
                                   IF k = r.key
                                   THEN FlowSeen(last.flows, r.key, pkt)
                                   ELSE last.flows[k]]]
    /\ UNCHANGED <<cfg, npackets, passed, errored>>
    /\ UNCHANGED <<keyVars, envVars, delayVars, extVars>>

-----------------------------------------------------------------------------
(* watermark.rs: Delayer and run_thread *)

MaxTime == 3
MaxSubmit == 2

\* tokio::time::sleep(Duration::from_secs(u64::MAX)): the far future, the
\* last instant of the clock
FarFuture == MaxTime

\* Deadlines passed to delay_packet
Deadlines == 0..(MaxTime - 1)

NoPacket == [time |-> -1, payload |-> 0]

\* BinaryHeap::pop: the greatest element by the derived Ord (time, payload)
HeapPop(pq) ==
    CHOOSE p \in pq :
        \A q \in pq : q.time < p.time \/ (q.time = p.time /\ q.payload <= p.payload)

\* A mutant of the recv branch: a packet that finds nothing armed is armed
\* and also pushed on the heap
RecvSomeArmAndPush(np, pq, su, new) ==
    IF np # NoPacket
    THEN IF new.time < np.time
         THEN [next_packet |-> new, packet_queue |-> pq \cup {np},
               sleep_until |-> np.time]
         ELSE [next_packet |-> np, packet_queue |-> pq \cup {new},
               sleep_until |-> su]
    ELSE [next_packet |-> new, packet_queue |-> pq \cup {new},
          sleep_until |-> new.time]

\* run_thread, branch queue.recv() with Some(new_packet)
RecvSome(np, pq, su, new) ==
    IF np # NoPacket
    THEN IF new.time < np.time
         THEN [next_packet |-> new, packet_queue |-> pq \cup {np},
               sleep_until |-> np.time]
         ELSE [next_packet |-> np, packet_queue |-> pq \cup {new},
               sleep_until |-> su]
    ELSE [next_packet |-> np, packet_queue |-> pq, sleep_until |-> su]

\* run_thread, branch sleep_fut at time t: ok is whether tx_token.consume
\* succeeds
TimerExpired(np, pq, su, tx, ok, t) ==
    IF np # NoPacket
    THEN LET sent == IF ok THEN Append(tx, [payload |-> np.payload, at |-> t])
                     ELSE tx
         IN IF pq # {}
            THEN [next_packet |-> HeapPop(pq),
                  packet_queue |-> pq \ {HeapPop(pq)},
                  sleep_until |-> HeapPop(pq).time, transmitted |-> sent]
            ELSE [next_packet |-> NoPacket, packet_queue |-> pq,
                  sleep_until |-> su, transmitted |-> sent]
    ELSE [next_packet |-> np, packet_queue |-> pq, sleep_until |-> su,
          transmitted |-> tx]

DelayInit == /\ queue = << >>
             /\ next_packet = NoPacket
             /\ packet_queue = {}
             /\ sleep_until = FarFuture
             /\ now = 0
             /\ submitted = << >>
             /\ transmitted = << >>
             /\ dstate = "running"
             /\ dlast = "none"

\* Delayer::delay_packet: payloads are numbered in the order of submission
DelayPacket ==
    /\ dstate = "running"
    /\ Len(submitted) < MaxSubmit
    /\ \E until \in Deadlines :
         LET qp == [time |-> until, payload |-> Len(submitted) + 1]
         IN /\ queue' = Append(queue, qp)
            /\ submitted' = Append(submitted, qp)
    /\ UNCHANGED <<next_packet, packet_queue, sleep_until, now, transmitted,
                   dstate, dlast>>
    /\ UNCHANGED <<keyVars, nfqVars, envVars, extVars>>

\* run_thread: queue.recv() yields Some(new_packet)
Recv ==
    /\ dstate \in {"running", "closing"}
    /\ queue # << >>
    /\ LET r == RecvSome(next_packet, packet_queue, sleep_until, Head(queue))
       IN /\ next_packet' = r.next_packet
          /\ packet_queue' = r.packet_queue
          /\ sleep_until' = r.sleep_until
    /\ queue' = Tail(queue)
    /\ dlast' = "recv"
    /\ UNCHANGED <<now, submitted, transmitted, dstate>>
    /\ UNCHANGED <<keyVars, nfqVars, envVars, extVars>>

\* run_thread: the sleep timer is up
TimerFire ==
    /\ dstate \in {"running", "closing"}
    /\ now >= sleep_until
    /\ \E ok \in BOOLEAN :
         LET r == TimerExpired(next_packet, packet_queue, sleep_until,
                               transmitted, ok, now)
         IN /\ next_packet = NoPacket => ok
            /\ next_packet' = r.next_packet
            /\ packet_queue' = r.packet_queue
            /\ sleep_until' = r.sleep_until
            /\ transmitted' = r.transmitted
    /\ dlast' = "timer"
    /\ UNCHANGED <<queue, now, submitted, dstate>>
    /\ UNCHANGED <<keyVars, nfqVars, envVars, extVars>>

\* The Delayer (the last Sender) is dropped
Close ==
    /\ dstate = "running"
    /\ dstate' = "closing"
    /\ UNCHANGED <<queue, next_packet, packet_queue, sleep_until, now,
                   submitted, transmitted, dlast>>
    /\ UNCHANGED <<keyVars, nfqVars, envVars, extVars>>

\* run_thread: queue.recv() yields None, the loop ends
RecvNone ==
    /\ dstate = "closing"
    /\ queue = << >>
    /\ dstate' = "ended"
    /\ dlast' = "closed"
    /\ UNCHANGED <<queue, next_packet, packet_queue, sleep_until, now,
                   submitted, transmitted>>
    /\ UNCHANGED <<keyVars, nfqVars, envVars, extVars>>

\* delay_thread.abort()
Abort ==
    /\ dstate \in {"running", "closing"}
    /\ dstate' = "aborted"
    /\ UNCHANGED <<queue, next_packet, packet_queue, sleep_until, now,
                   submitted, transmitted, dlast>>
    /\ UNCHANGED <<keyVars, nfqVars, envVars, extVars>>

\* The clock advances
Tick ==
    /\ now < MaxTime
    /\ now' = now + 1
    /\ UNCHANGED <<queue, next_packet, packet_queue, sleep_until, submitted,
                   transmitted, dstate, dlast>>
    /\ UNCHANGED <<keyVars, nfqVars, envVars, extVars>>

-----------------------------------------------------------------------------
(* ConnectionKey::new on a packet and on its reverse *)

KeyInputs ==
    [ips : {IpPair(v, a, b) : v \in {4, 6}, a \in IPs, b \in IPs},
     sport : Ports, dport : Ports, proto : Protos]

KeyInit == /\ keyIn \in KeyInputs
           /\ keyOut = [done |-> FALSE]

KeyCompute ==
    /\ ~keyOut.done
    /\ keyOut' = [done |-> TRUE,
                  fwd |-> ConnectionKeyNew(keyIn.ips, keyIn.sport, keyIn.dport,
                                           keyIn.proto),
                  rev |-> ConnectionKeyNew(IpPairSwap(keyIn.ips), keyIn.dport,
                                           keyIn.sport, keyIn.proto)]
    /\ UNCHANGED <<keyIn, nfqVars, envVars, delayVars, extVars>>

-----------------------------------------------------------------------------
(* program/program.rs: Program, Line, Condition, the optimizer and run *)

NumRegisters == 2
MaxLines == 3
MaxRuns == 2

\* Value::Int and Value::Bool (a bool is kept as 0 or 1, as i64::from does)
IntV(i) == [k |-> "Int", v |-> i]
BoolV(b) == [k |-> "Bool", v |-> IF b THEN 1 ELSE 0]
NoValue == [k |-> "None", v |-> 0]

\* Input::Field(Field::Tcp(PayloadLength)) and Input::Register
FieldIn == [k |-> "Field", v |-> 0]
RegIn(ty, index) == [k |-> "Register", ty |-> ty, index |-> index]

\* Input::const_value is Some
IsConst(input) == input.k \in {"Int", "Bool"}

\* Register::as_uninitialized_value
AsUninitializedValue(reg) == IF reg.ty = "Int" THEN IntV(0) ELSE BoolV(FALSE)

\* Value::as_bool
AsBool(val) == val.v # 0

\* Operator::call on Int and Bool values
OperatorCall(operator, lhs, rhs) ==
    CASE operator = "Less" -> lhs.v < rhs.v
      [] operator = "Greater" -> lhs.v > rhs.v
      [] operator = "Equal" -> lhs.v = rhs.v
      [] operator = "NotEqual" -> lhs.v # rhs.v
      [] operator = "And" -> AsBool(lhs) /\ AsBool(rhs)
      [] operator = "Xor" -> AsBool(lhs) # AsBool(rhs)

\* Operator::invert
OperatorInvert(operator) ==
    CASE operator = "Less" -> "Greater"
      [] operator = "Greater" -> "Less"
      [] OTHER -> operator

\* MathOperator::call on Int and Bool values
MathCall(op, lhs, rhs) ==
    CASE op = "Add" -> IntV(lhs.v + rhs.v)
      [] op = "And" -> BoolV(AsBool(lhs) /\ AsBool(rhs))
      [] op = "Xor" -> BoolV(AsBool(lhs) # AsBool(rhs))

MathOps == {"Add", "And", "Xor"}

NoCondition == [operator |-> "none"]
Cond(lhs, operator, rhs) == [lhs |-> lhs, operator |-> operator, rhs |-> rhs]
Noop == [op |-> "Noop"]
CopyOp(from, to) == [op |-> "Copy", from |-> from, to |-> to]
MathOp(op, lhs, rhs, out) == [op |-> op, lhs |-> lhs, rhs |-> rhs, out |-> out]
ReturnOp(action) == [op |-> "Return", action |-> action]
ProgramLine(condition, operation) ==
    [condition |-> condition, operation |-> operation]

HasCondition(line) == line.condition.operator # "none"

\* Registers::new
RegistersNew == [int |-> [i \in 0..(NumRegisters - 1) |-> 0],
                 bool |-> [i \in 0..(NumRegisters - 1) |-> 0]]

\* Registers::get
RegistersGet(regs, reg) ==
    IF reg.index \notin 0..(NumRegisters - 1) THEN NoValue
    ELSE IF reg.ty = "Int" THEN IntV(regs.int[reg.index])
    ELSE [k |-> "Bool", v |-> regs.bool[reg.index]]

\* A mutant of Registers::set: a relaxed write stores the value, coerced, in
\* the bank of the target register
RegistersSetCoerces(regs, relax, reg, val) ==
    IF reg.ty # val.k /\ ~relax
    THEN [ok |-> FALSE, regs |-> regs, err |-> "InvalidType"]
    ELSE IF reg.index \notin 0..(NumRegisters - 1)
    THEN [ok |-> FALSE, regs |-> regs, err |-> "InvalidIndex"]
    ELSE IF reg.ty = "Int"
    THEN [ok |-> TRUE, regs |-> [regs EXCEPT !.int[reg.index] = val.v],
          err |-> "none"]
    ELSE [ok |-> TRUE,
          regs |-> [regs EXCEPT !.bool[reg.index] = IF val.v # 0 THEN 1 ELSE 0],
          err |-> "none"]

\* Registers::set
RegistersSet(regs, relax, reg, val) ==
    IF reg.ty # val.k /\ ~relax
    THEN [ok |-> FALSE, regs |-> regs, err |-> "InvalidType"]
    ELSE IF reg.index \notin 0..(NumRegisters - 1)
    THEN [ok |-> FALSE, regs |-> regs, err |-> "InvalidIndex"]
    ELSE IF val.k = "Int"
    THEN [ok |-> TRUE, regs |-> [regs EXCEPT !.int[reg.index] = val.v],
          err |-> "none"]
    ELSE [ok |-> TRUE, regs |-> [regs EXCEPT !.bool[reg.index] = val.v],
          err |-> "none"]

\* Input::eval; field is the packet's payload length
InputEval(input, field, regs) ==
    CASE input.k = "Field" -> IntV(field)
      [] input.k = "Register" -> RegistersGet(regs, input)
      [] OTHER -> input

\* Condition::eval: "true", "false" or "err"
ConditionEval(cond, field, regs) ==
    LET lhs == InputEval(cond.lhs, field, regs)
        rhs == InputEval(cond.rhs, field, regs)
    IN IF lhs = NoValue \/ rhs = NoValue THEN "err"
       ELSE IF OperatorCall(cond.operator, lhs, rhs) THEN "true" ELSE "false"

\* Condition::proven_value: "true", "false" or "none"
ProvenValue(cond) ==
    IF IsConst(cond.lhs) /\ IsConst(cond.rhs)
    THEN IF OperatorCall(cond.operator, cond.lhs, cond.rhs) THEN "true" ELSE "false"
    ELSE "none"

\* Condition::enhance_readability
EnhanceReadability(cond) ==
    IF IsConst(cond.lhs) /\ cond.rhs.k \in {"Field", "Register"}
    THEN Cond(cond.rhs, OperatorInvert(cond.operator), cond.lhs)
    ELSE cond

\* Line::run: the action the line returns, or "Err", and the registers after
LineRun(line, field, regs, relax) ==
    LET c == IF HasCondition(line) THEN ConditionEval(line.condition, field, regs)
             ELSE "true"
        o == line.operation
    IN IF c = "err" THEN [action |-> "Err", regs |-> regs]
       ELSE IF c = "false" THEN [action |-> "Allow", regs |-> regs]
       ELSE IF o.op = "Copy"
       THEN LET val == InputEval(o.from, field, regs)
                w == RegistersSet(regs, relax, o.to, val)
            IN IF val = NoValue \/ ~w.ok THEN [action |-> "Err", regs |-> regs]
               ELSE [action |-> "Allow", regs |-> w.regs]
       ELSE IF o.op \in MathOps
       THEN LET lhs == InputEval(o.lhs, field, regs)
                rhs == InputEval(o.rhs, field, regs)
            IN IF lhs = NoValue \/ rhs = NoValue
               THEN [action |-> "Err", regs |-> regs]
               ELSE LET w == RegistersSet(regs, relax, o.out, MathCall(o.op, lhs, rhs))
                    IN IF ~w.ok THEN [action |-> "Err", regs |-> regs]
                       ELSE [action |-> "Allow", regs |-> w.regs]
       ELSE IF o.op = "Return" THEN [action |-> o.action, regs |-> regs]
       ELSE [action |-> "Allow", regs |-> regs]

\* A run that stops at the first Return whose condition holds, whatever
\* its action
RECURSIVE RunFromAnyReturnStops(_, _, _, _, _)
RunFromAnyReturnStops(lines, i, field, regs, relax) ==
    IF i > Len(lines) THEN [action |-> "Allow", regs |-> regs]
    ELSE LET r == LineRun(lines[i], field, regs, relax)
             c == IF HasCondition(lines[i])
                  THEN ConditionEval(lines[i].condition, field, regs)
                  ELSE "true"
         IN IF r.action # "Allow" \/ (c = "true" /\ lines[i].operation.op = "Return")
            THEN r
            ELSE RunFromAnyReturnStops(lines, i + 1, field, r.regs, relax)

\* Program::run from line i on
RECURSIVE RunFrom(_, _, _, _, _)
RunFrom(lines, i, field, regs, relax) ==
    IF i > Len(lines) THEN [action |-> "Allow", regs |-> regs]
    ELSE LET r == LineRun(lines[i], field, regs, relax)
         IN IF r.action # "Allow" THEN r
            ELSE RunFrom(lines, i + 1, field, r.regs, relax)

\* Program::run
ProgramRun(lines, field, regs, relax) == RunFrom(lines, 1, field, regs, relax)

\* Program::strip_noops
StripNoops(lines) == SelectSeq(lines, LAMBDA line : line.operation.op # "Noop")

\* Operation::has_constant_math_value is Some
HasConstantMathValue(o) ==
    o.op \in MathOps /\ IsConst(o.lhs) /\ IsConst(o.rhs)

\* The closure of optimise run on every line: conditions proven true are
\* removed, lines with conditions proven false become Noop, constant
\* arithmetic becomes a Copy
FoldChanges(line) ==
    \/ HasCondition(line) /\ ProvenValue(line.condition) # "none"
    \/ ~(HasCondition(line) /\ ProvenValue(line.condition) = "false")
         /\ HasConstantMathValue(line.operation)

FoldLine(line) ==
    LET pv == IF HasCondition(line) THEN ProvenValue(line.condition) ELSE "none"
        l1 == IF pv = "true" THEN [line EXCEPT !.condition = NoCondition]
              ELSE IF pv = "false" THEN [line EXCEPT !.operation = Noop]
              ELSE line
        o == l1.operation
    IN IF HasConstantMathValue(o)
       THEN [l1 EXCEPT !.operation = CopyOp(MathCall(o.op, o.lhs, o.rhs), o.out)]
       ELSE l1

\* Program::write_register_indices: the index a line writes, -1 for None
WriteRegisterIndex(line) ==
    IF line.operation.op = "Copy" THEN line.operation.to.index
    ELSE IF line.operation.op \in MathOps THEN line.operation.out.index
    ELSE -1

WrittenRegSet(lines) ==
    {WriteRegisterIndex(lines[i]) : i \in 1..Len(lines)} \ {-1}

\* Program::read_register_indices_also_fix on one input
FixInput(input, written) ==
    IF input.k = "Register" /\ input.index \notin written
    THEN AsUninitializedValue(input) ELSE input

ReadOfInput(input, written) ==
    IF input.k = "Register" /\ input.index \in written THEN {input.index} ELSE {}

\* The inputs of a line: of its condition and of its operation
LineInputs(line) ==
    (IF HasCondition(line) THEN {line.condition.lhs, line.condition.rhs} ELSE {})
    \cup (IF line.operation.op = "Copy" THEN {line.operation.from}
          ELSE IF line.operation.op \in MathOps
          THEN {line.operation.lhs, line.operation.rhs} ELSE {})

FixLine(line, written) ==
    LET c == IF HasCondition(line)
             THEN Cond(FixInput(line.condition.lhs, written),
                       line.condition.operator,
                       FixInput(line.condition.rhs, written))
             ELSE line.condition
        o == line.operation
        o1 == IF o.op = "Copy" THEN [o EXCEPT !.from = FixInput(o.from, written)]
              ELSE IF o.op \in MathOps
              THEN [o EXCEPT !.lhs = FixInput(o.lhs, written),
                             !.rhs = FixInput(o.rhs, written)]
              ELSE o
    IN ProgramLine(c, o1)

ReadRegisterIndices(lines, written) ==
    UNION { UNION {ReadOfInput(input, written) : input \in LineInputs(lines[i])} :
            i \in 1..Len(lines) }

\* Index of the first unconditional Return, 0 when there is none
RECURSIVE FirstUnconditionalReturn(_, _)
FirstUnconditionalReturn(lines, i) ==
    IF i > Len(lines) THEN 0
    ELSE IF ~HasCondition(lines[i]) /\ lines[i].operation.op = "Return" THEN i
    ELSE FirstUnconditionalReturn(lines, i + 1)

\* strip_noops with changed |= its result; p is [lines, changed]
StripStage(p) ==
    [lines |-> StripNoops(p.lines),
     changed |-> p.changed \/ Len(StripNoops(p.lines)) # Len(p.lines)]

\* The for_each over the lines: proven conditions and constant arithmetic
FoldStage(p) ==
    [lines |-> [i \in 1..Len(p.lines) |-> FoldLine(p.lines[i])],
     changed |-> p.changed \/ \E i \in 1..Len(p.lines) : FoldChanges(p.lines[i])]

\* A line that writes a register no line reads
DeadWrite(line, read) ==
    WriteRegisterIndex(line) # -1 /\ WriteRegisterIndex(line) \notin read

\* Register analysis: reads of never-written registers become constants, and
\* lines that write a register that is never read become Noop
RegisterStage(p) ==
    LET written == WrittenRegSet(p.lines)
        read == ReadRegisterIndices(p.lines, written)
    IN [lines |-> [i \in 1..Len(p.lines) |->
                     IF DeadWrite(p.lines[i], read)
                     THEN [FixLine(p.lines[i], written) EXCEPT !.operation = Noop]
                     ELSE FixLine(p.lines[i], written)],
        changed |-> \/ p.changed
                    \/ \E i \in 1..Len(p.lines) :
                          FixLine(p.lines[i], written) # p.lines[i]
                    \/ \E i \in 1..Len(p.lines) : DeadWrite(p.lines[i], read)]

\* Truncation after the first unconditional Return: changed is left as it is
TruncateStage(p) ==
    LET idx == FirstUnconditionalReturn(p.lines, 1)
    IN [lines |-> IF idx # 0 THEN SubSeq(p.lines, 1, idx) ELSE p.lines,
        changed |-> p.changed]

\* One pass of the while loop of Program::optimise
OptimiseIteration(lines) ==
    TruncateStage(StripStage(RegisterStage(StripStage(FoldStage(StripStage(
        [lines |-> lines, changed |-> FALSE]))))))

RECURSIVE OptimiseLoop(_)
OptimiseLoop(lines) ==
    LET r == OptimiseIteration(lines)
    IN IF r.changed THEN OptimiseLoop(r.lines) ELSE r.lines

\* Program::optimise
Optimise(lines) ==
    LET l == OptimiseLoop(lines)
    IN [i \in 1..Len(l) |->
          IF HasCondition(l[i])
          THEN [l[i] EXCEPT !.condition = EnhanceReadability(@)]
          ELSE l[i]]

\* tcp::ProgramEnv::process around Program::run: st holds the latch and the
\* registers of the flow
EnvRun(lines, st, field, relax) ==
    IF st.default_action = "AllowAll" THEN [st |-> st, action |-> "Allow"]
    ELSE IF st.default_action = "TerminateAll"
    THEN [st |-> st, action |-> "TerminateAll"]
    ELSE LET r == ProgramRun(lines, field, st.regs, relax)
             d == IF r.action \in {"AllowAll", "TerminateAll"} THEN r.action
                  ELSE "Allow"
         IN [st |-> [default_action |-> d, regs |-> r.regs], action |-> d]

\* The call of Program::run that tcp::ProgramEnv::process makes for a packet
\* of a flow that has not latched: its input and its result
RunRecord(lines, st, field, relax) ==
    IF st.default_action = "Allow"
    THEN [called |-> TRUE, field |-> field, before |-> st.regs,
          result |-> ProgramRun(lines, field, st.regs, relax)]
    ELSE [called |-> FALSE, field |-> field, before |-> st.regs,
          result |-> [action |-> "none", regs |-> st.regs]]

\* The lines programs are built from
PvmLines ==
    << ProgramLine(NoCondition, CopyOp(IntV(1), RegIn("Int", 0))),
       ProgramLine(NoCondition, ReturnOp("TerminateAll")),
       ProgramLine(NoCondition, ReturnOp("Allow")),
       ProgramLine(Cond(RegIn("Int", 0), "Equal", IntV(1)), ReturnOp("AllowAll")),
       ProgramLine(Cond(IntV(0), "Less", FieldIn), ReturnOp("TerminateAll")),
       ProgramLine(NoCondition,
                   MathOp("Add", RegIn("Int", 0), IntV(1), RegIn("Int", 0))),
       ProgramLine(Cond(IntV(1), "Equal", IntV(1)),
                   MathOp("Xor", BoolV(TRUE), BoolV(FALSE), RegIn("Int", 1))),
       ProgramLine(Cond(RegIn("Bool", 1), "Equal", BoolV(TRUE)),
                   ReturnOp("TerminateAll")),
       ProgramLine(Cond(IntV(1), "Less", IntV(0)), ReturnOp("TerminateAll")) >>

\* Programs of at most MaxLines lines, as indices into PvmLines
ProgramIndices == UNION {[1..n -> 1..Len(PvmLines)] : n \in 0..MaxLines}
ProgramOf(ix) == [i \in 1..Len(ix) |-> PvmLines[ix[i]]]

\* Payload lengths of the packets of the flow
FieldValues == {0, 17}

FlowNew == [default_action |-> "Allow", regs |-> RegistersNew]

PvmIdle == pvm = [phase |-> "idle"]

PvmInit ==
    \E ix \in ProgramIndices, relax \in BOOLEAN :
       pvm = [phase |-> "new", lines |-> ProgramOf(ix), relax |-> relax]

\* Program::new: the program is optimised on load; again is the result of
\* optimising the optimised program once more
ProgramNew ==
    /\ pvm.phase = "new"
    /\ \E o \in {Optimise(pvm.lines)} :
         pvm' = [phase |-> "loaded", lines |-> pvm.lines, relax |-> pvm.relax,
                 optimised |-> o, again |-> Optimise(o),
                 flow |-> FlowNew, oflow |-> FlowNew, runs |-> 0,
                 action |-> "none", oaction |-> "none",
                 ran |-> [called |-> FALSE, field |-> 0, before |-> RegistersNew,
                          result |-> [action |-> "none", regs |-> RegistersNew]]]
    /\ UNCHANGED <<coreVars, unitVars, mw, orch, ipt>>

\* One packet of the flow handled with the program as written (flow) and with
\* the optimised program (oflow)
ProgramPacket ==
    /\ pvm.phase = "loaded"
    /\ pvm.runs < MaxRuns
    /\ \E field \in FieldValues :
         \E p \in {EnvRun(pvm.lines, pvm.flow, field, pvm.relax)},
            o \in {EnvRun(pvm.optimised, pvm.oflow, field, pvm.relax)} :
            pvm' = [pvm EXCEPT !.flow = p.st, !.oflow = o.st,
                               !.action = p.action, !.oaction = o.action,
                               !.ran = RunRecord(pvm.lines, pvm.flow, field,
                                                 pvm.relax),
                               !.runs = @ + 1]
    /\ UNCHANGED <<coreVars, unitVars, mw, orch, ipt>>

-----------------------------------------------------------------------------
(* model/mod.rs: the model thread; program/packet.rs: Model::evaluate *)

NumFlows == 2
MaxRequests == 3
Flows == 1..NumFlows
ModelNames == {"known", "unknown"}

\* ModelThreadMessage
ShutdownMsg == [type |-> "Shutdown", id |-> 0]
RequestMsg(id, name, flow) ==
    [type |-> "Request", id |-> id, name |-> name, response_channel |-> flow]

\* The reply of the model thread to a request: run is the outcome of shaping
\* the data and running the session of a model that exists
ModelResultOf(name, run) == IF name = "known" THEN run ELSE "ModelNotFound"
RunOutcomes == {"Ok", "ModelShapeError", "ModelRunError"}

\* A worker that answers every request on the return channel of flow 1
ResponseChannelOfFirstFlow(message) == 1

\* The channel the worker answers a request on
ResponseChannel(message) == message.response_channel

\* start_model_thread and Model::new of every flow
MwNew ==
    [receiver |-> << >>, alive |-> TRUE, shutdown_sent |-> FALSE,
     return_recv |-> [f \in Flows |-> << >>], waiting |-> [f \in Flows |-> 0],
     next_id |-> 1, sent |-> << >>, served |-> << >>, replied |-> << >>,
     returned |-> << >>]

MwIdle == mw = [alive |-> FALSE]

MwInit == mw = MwNew

\* Model::evaluate up to the send: the request goes to the model thread with
\* a clone of the flow's return_sender; the send fails once the receiver is
\* dropped
ModelEvaluate ==
    /\ mw.next_id <= MaxRequests
    /\ \E f \in Flows, name \in ModelNames :
         /\ mw.waiting[f] = 0
         /\ IF mw.alive
            THEN mw' = [mw EXCEPT
                          !.receiver = Append(@, RequestMsg(mw.next_id, name, f)),
                          !.sent = Append(@, [id |-> mw.next_id, flow |-> f]),
                          !.waiting[f] = mw.next_id,
                          !.next_id = @ + 1]
            ELSE mw' = [mw EXCEPT
                          !.returned = Append(@, [flow |-> f, req |-> mw.next_id,
                                                  reply |-> 0,
                                                  result |-> "SendError"]),
                          !.next_id = @ + 1]
    /\ UNCHANGED <<coreVars, unitVars, pvm, orch, ipt>>

\* Model::evaluate from return_recv.recv() on
ModelEvaluateReturn ==
    /\ \E f \in Flows :
         /\ mw.waiting[f] # 0
         /\ mw.return_recv[f] # << >>
         /\ mw' = [mw EXCEPT
                     !.return_recv[f] = Tail(@),
                     !.waiting[f] = 0,
                     !.returned = Append(@, [flow |-> f, req |-> mw.waiting[f],
                                             reply |-> Head(mw.return_recv[f]).id,
                                             result |-> Head(mw.return_recv[f]).result])]
    /\ UNCHANGED <<coreVars, unitVars, pvm, orch, ipt>>

\* The model thread receives a Request and answers it
WorkerRequest ==
    /\ mw.alive
    /\ mw.receiver # << >>
    /\ Head(mw.receiver).type = "Request"
    /\ \E run \in RunOutcomes, to \in {ResponseChannel(Head(mw.receiver))} :
         LET m == Head(mw.receiver)
         IN /\ Len(mw.return_recv[to]) < 1
            /\ mw' = [mw EXCEPT
                        !.receiver = Tail(@),
                        !.return_recv[to] =
                            Append(@, [id |-> m.id,
                                       result |-> ModelResultOf(m.name, run)]),
                        !.served = Append(@, m.id),
                        !.replied = Append(@, [id |-> m.id, to |-> to])]
    /\ UNCHANGED <<coreVars, unitVars, pvm, orch, ipt>>

\* The model thread receives Shutdown and leaves its loop; the receiver is
\* dropped with what it still holds
WorkerShutdown ==
    /\ mw.alive
    /\ mw.receiver # << >>
    /\ Head(mw.receiver).type = "Shutdown"
    /\ mw' = [mw EXCEPT !.alive = FALSE, !.receiver = << >>]
    /\ UNCHANGED <<coreVars, unitVars, pvm, orch, ipt>>

\* main tells the model thread to shut down
SendShutdown ==
    /\ ~mw.shutdown_sent
    /\ mw' = [mw EXCEPT !.receiver = Append(@, ShutdownMsg),
                        !.sent = Append(@, [id |-> 0, flow |-> 0]),
                        !.shutdown_sent = TRUE]
    /\ UNCHANGED <<coreVars, unitVars, pvm, orch, ipt>>

-----------------------------------------------------------------------------
(* censor/mod.rs: Censor::run, handle_ipc, the signal handler;               *)
(* ipc.rs: the IPC listener                                                  *)

MaxConns == 2
MaxSignals == 1
MaxFrames == 1

\* IPC_SUCCESS = b"OK" and IPC_FAILURE = b"NO"
IPC_SUCCESS == <<79, 75>>
IPC_FAILURE == <<78, 79>>

\* IpcOpcode::try_from(u8)
IpcOpcodeTryFrom(code) ==
    IF code = 0 THEN "UpdateModel" ELSE IF code = 1 THEN "Shutdown" ELSE "Invalid"

\* ModelScope::try_from(u8)
ModelScopeTryFrom(code) ==
    IF code = 0 THEN "Tcp" ELSE IF code = 1 THEN "Udp" ELSE "Invalid"

\* What a client sends: an opcode byte (-1: the stream ends before it), and
\* for UpdateModel a scope byte and a body that is complete, cut short, or
\* carries metadata that is not valid JSON
IpcRequests ==
    {[opcode |-> 0, scope |-> s, body |-> b] :
        s \in 0..2, b \in {"complete", "truncated", "badjson"}}
    \cup {[opcode |-> o, scope |-> 0, body |-> "complete"] : o \in {-1, 1, 2}}

\* handle_client: alive tells whether the receiver of the control channel
\* still exists
HandleClient(req, alive) ==
    LET err == [ok |-> FALSE, terminate |-> FALSE, sent |-> << >>]
    IN IF req.opcode = -1 THEN err
       ELSE IF IpcOpcodeTryFrom(req.opcode) = "Invalid" THEN err
       ELSE IF IpcOpcodeTryFrom(req.opcode) = "UpdateModel"
       THEN IF ModelScopeTryFrom(req.scope) = "Invalid" THEN err
            ELSE IF req.body # "complete" THEN err
            ELSE IF ~alive THEN err
            ELSE [ok |-> TRUE, terminate |-> FALSE, sent |-> <<"UpdateModel">>]
       ELSE IF ~alive THEN err
       ELSE [ok |-> TRUE, terminate |-> TRUE, sent |-> <<"Shutdown">>]

\* handle_client_wrapped: write_ok tells whether the reply can be written to
\* the stream; terminate is Ok(true)
HandleClientWrapped(req, alive, write_ok) ==
    LET r == HandleClient(req, alive)
        response == IF r.ok THEN IPC_SUCCESS ELSE IPC_FAILURE
    IN [written |-> IF write_ok THEN <<response>> ELSE << >>,
        terminate |-> write_ok /\ r.ok /\ r.terminate,
        sent |-> r.sent]

\* handle_ipc: the messages of the control channel are taken in order up to
\* and including the first Shutdown
RECURSIVE HandleIpc(_)
HandleIpc(control) ==
    IF control = << >> THEN [shutdown |-> FALSE, control |-> << >>]
    ELSE IF Head(control) = "Shutdown"
    THEN [shutdown |-> TRUE, control |-> Tail(control)]
    ELSE HandleIpc(Tail(control))

NoConn == [opcode |-> -2]

OrchIdle == orch = [backend |-> "none"]

\* Censor::run up to the spawn of the IPC and signal tasks, for the back-ends
\* that have them
OrchInit ==
    \E backend \in {"Nfq", "Wire"} :
       orch = [backend |-> backend, control |-> << >>, loop |-> "running",
               cmd_result |-> "none", left_by |-> "none", ipc |-> "listening",
               sig |-> "waiting", run |-> "subcmd", shutdown_placed |-> FALSE,
               conn |-> NoConn, nconns |-> 0, nsignals |-> 0, frames |-> 0]

\* The receiver of the control channel lives in the Censor, which run_subcmd
\* consumes
ReceiverAlive == orch.loop = "running"

\* ipc_thread: one connection accepted and handled
IpcConnection ==
    /\ orch.ipc = "listening"
    /\ orch.nconns < MaxConns
    /\ \E req \in IpcRequests, write_ok \in BOOLEAN :
         \E r \in {HandleClientWrapped(req, ReceiverAlive, write_ok)} :
            orch' = [orch EXCEPT
                       !.control = @ \o r.sent,
                       !.shutdown_placed = @ \/ r.sent = <<"Shutdown">>,
                       !.ipc = IF r.terminate THEN "ended" ELSE "listening",
                       !.nconns = @ + 1,
                       !.conn = [opcode |-> req.opcode, scope |-> req.scope,
                                 body |-> req.body, written |-> r.written,
                                 sent |-> r.sent, alive |-> ReceiverAlive,
                                 listening |-> ~r.terminate]]
    /\ UNCHANGED <<coreVars, unitVars, pvm, mw, ipt>>

\* signal_handler_thread: a hangup signal arrives
SignalReceived ==
    /\ orch.sig = "waiting"
    /\ orch.nsignals < MaxSignals
    /\ IF ReceiverAlive
       THEN orch' = [orch EXCEPT !.control = Append(@, "Shutdown"),
                                 !.shutdown_placed = TRUE,
                                 !.nsignals = @ + 1]
       ELSE orch' = [orch EXCEPT !.sig = "failed", !.nsignals = @ + 1]
    /\ UNCHANGED <<coreVars, unitVars, pvm, mw, ipt>>

\* run_nfq: handle_ipc at the top of the packet loop; on Shutdown the loop is
\* left and run_nfq returns Ok
NfqHandleIpc ==
    /\ orch.backend = "Nfq"
    /\ orch.loop = "running"
    /\ orch.control # << >>
    /\ \E r \in {HandleIpc(orch.control)} :
         orch' = [orch EXCEPT
                    !.control = r.control,
                    !.loop = IF r.shutdown THEN "left" ELSE "running",
                    !.cmd_result = IF r.shutdown THEN "ok" ELSE "none",
                    !.left_by = IF r.shutdown THEN "shutdown" ELSE "none"]
    /\ UNCHANGED <<coreVars, unitVars, pvm, mw, ipt>>

\* run_wire: the forwarding loop, which never looks at the control channel
WireForward ==
    /\ orch.backend = "Wire"
    /\ orch.loop = "running"
    /\ orch.frames < MaxFrames
    /\ orch' = [orch EXCEPT !.frames = @ + 1]
    /\ UNCHANGED <<coreVars, unitVars, pvm, mw, ipt>>

\* run_nfq, run_wire: an error of the queue or of the interface ends the
\* subcommand with Err
SubcmdError ==
    /\ orch.loop = "running"
    /\ orch' = [orch EXCEPT !.loop = "left", !.cmd_result = "err",
                            !.left_by = "error"]
    /\ UNCHANGED <<coreVars, unitVars, pvm, mw, ipt>>

\* Censor::run after run_subcmd: the tasks are aborted when the subcommand
\* ended in an error
RunAfterSubcmd ==
    /\ orch.run = "subcmd"
    /\ orch.loop = "left"
    /\ orch' = [orch EXCEPT
                  !.ipc = IF orch.cmd_result = "err" /\ @ = "listening"
                          THEN "aborted" ELSE @,
                  !.sig = IF orch.cmd_result = "err" /\ @ = "waiting"
                          THEN "aborted" ELSE @,
                  !.run = "join_ipc"]
    /\ UNCHANGED <<coreVars, unitVars, pvm, mw, ipt>>

\* Censor::run: ipc_thread.await
JoinIpc ==
    /\ orch.run = "join_ipc"
    /\ orch.ipc \in {"ended", "aborted"}
    /\ orch' = [orch EXCEPT !.run = "join_sig"]
    /\ UNCHANGED <<coreVars, unitVars, pvm, mw, ipt>>

\* Censor::run: sigint_thread.await, then cmd_result is returned
JoinSig ==
    /\ orch.run = "join_sig"
    /\ orch.sig \in {"aborted", "failed"}
    /\ orch' = [orch EXCEPT !.run = "returned"]
    /\ UNCHANGED <<coreVars, unitVars, pvm, mw, ipt>>

-----------------------------------------------------------------------------
(* censor/nfq.rs: IpTablesRule::activate and the Drop of the activated rule *)

MaxRules == 3
QueueNums == {0, 1}
IPTABLES_COMMENT == "CENSORLAB NFQ TAP"

\* IpTablesRule::rule_string
RuleString(queue_num) ==
    [target |-> "NFQUEUE", queue_num |-> queue_num, comment |-> IPTABLES_COMMENT]

\* The rules a chain may hold before CensorLab starts: rules left by an
\* earlier instance, and rules of others
PriorRules ==
    {RuleString(q) : q \in QueueNums}
    \cup {[target |-> "NFQUEUE", queue_num |-> 0, comment |-> ""],
          [target |-> "ACCEPT", queue_num |-> 0, comment |-> ""]}

PriorChains == UNION {[1..n -> PriorRules] : n \in 0..MaxRules}

\* iptables.exists
RuleExists(chain, rule) == \E i \in DOMAIN chain : chain[i] = rule

\* iptables.delete_all
DeleteAll(chain, rule) == SelectSeq(chain, LAMBDA r : r # rule)

\* iptables.append_unique
AppendUnique(chain, rule) ==
    IF RuleExists(chain, rule) THEN chain ELSE Append(chain, rule)

\* IpTablesRule::activate when iptables reports no error
ActivateChain(chain, queue_num) ==
    LET rule == RuleString(queue_num)
        cleaned == IF RuleExists(chain, rule) THEN DeleteAll(chain, rule)
                   ELSE chain
    IN AppendUnique(cleaned, rule)

IptIdle == ipt = [phase |-> "none"]

IptInit ==
    \E chain \in PriorChains, q \in QueueNums :
       ipt = [phase |-> "prior", chain |-> chain, queue_num |-> q,
              prior |-> chain]

\* IpTablesRule::activate
Activate ==
    /\ ipt.phase = "prior"
    /\ ipt' = [ipt EXCEPT !.phase = "activated",
                          !.chain = ActivateChain(ipt.chain, ipt.queue_num)]
    /\ UNCHANGED <<coreVars, unitVars, pvm, mw, orch>>

\* IpTablesRule::activate returning an error before the chain is touched:
\* no iptables handle, or the chain does not exist
ActivateError ==
    /\ ipt.phase = "prior"
    /\ ipt' = [ipt EXCEPT !.phase = "failed"]
    /\ UNCHANGED <<coreVars, unitVars, pvm, mw, orch>>

\* Drop for IpTablesRuleActivated; ok tells whether delete_all succeeds
DropActivated ==
    /\ ipt.phase = "activated"
    /\ \E ok \in BOOLEAN :
         ipt' = [ipt EXCEPT
                   !.phase = IF ok THEN "dropped" ELSE "drop_failed",
                   !.chain = IF ok
                             THEN DeleteAll(ipt.chain, RuleString(ipt.queue_num))
                             ELSE ipt.chain]
    /\ UNCHANGED <<coreVars, unitVars, pvm, mw, orch>>

-----------------------------------------------------------------------------
(* censor/mod.rs: AllowBlockList::recommend and recommend_either on their own *)

MaxListValue == 2

\* Values a list can hold or be asked about
ListValues == 1..MaxListValue

\* Actions a configured list carries
ListActions == {Act("None"), Act("Drop"), Act("Ignore")}

\* Every allow/block list over the values and actions
AllowBlockLists ==
    { [allow |-> [store |-> as, action |-> aa],
       block |-> [store |-> bs, action |-> ba]] :
      as \in SUBSET ListValues, aa \in ListActions,
      bs \in SUBSET ListValues, ba \in ListActions }

LstIdle == lst = [phase |-> "none"]

LstInit ==
    \E abl \in AllowBlockLists, a \in ListValues, b \in ListValues :
       lst = [phase |-> "asked", abl |-> abl, a |-> a, b |-> b]

\* The calls recommend(a), recommend(b), recommend_either(a, b) and
\* recommend_either(b, a) on the list
Recommend ==
    /\ lst.phase = "asked"
    /\ lst' = [phase |-> "answered", abl |-> lst.abl, a |-> lst.a, b |-> lst.b,
               rec_a |-> AllowBlockListRecommend(lst.abl, lst.a),
               rec_b |-> AllowBlockListRecommend(lst.abl, lst.b),
               either_ab |-> RecommendEither(lst.abl, lst.a, lst.b),
               either_ba |-> RecommendEither(lst.abl, lst.b, lst.a)]
    /\ UNCHANGED <<coreVars, pvm, mw, orch, ipt, dirn, nq, restVars>>

-----------------------------------------------------------------------------
(* censor/mod.rs: the direction derived in process_ipv4 and process_ipv6 *)

MaxAddr == 3

\* Addresses of the client and of the packets
DirAddrs == 1..MaxAddr

DirIdle == dirn = [phase |-> "none"]

DirInit ==
    \E cv \in {4, 6}, ci \in DirAddrs, v \in {4, 6},
       src \in DirAddrs, dst \in DirAddrs :
       dirn = [phase |-> "received", client_ip_ver |-> cv, client_ip |-> ci,
               ver |-> v, src |-> src, dst |-> dst]

\* The direction of the packet and of the packet with its addresses swapped
Derive ==
    /\ dirn.phase = "received"
    /\ dirn' = [dirn EXCEPT !.phase = "derived"] @@
               [direction |-> DeriveDirection(dirn, dirn),
                swapped |-> DeriveDirection(dirn,
                               [dirn EXCEPT !.src = dirn.dst, !.dst = dirn.src])]
    /\ UNCHANGED <<coreVars, pvm, mw, orch, ipt, lst, nq, restVars>>

-----------------------------------------------------------------------------
(* censor/nfq.rs: run_nfq from the opening of the queues to the packet loop *)

\* rule_in and rule_out, each for IPv4 and IPv6, in the order of activation
RuleNames == <<"in_ipv4", "in_ipv6", "out_ipv4", "out_ipv6">>

\* What opening and binding the two queues can give
OpenResults == {"ok", "NfqOpen", "NfqBind"}

\* The system run_nfq starts on: each chain exists or not
NfqStartInit ==
    \E exists \in [1..Len(RuleNames) -> BOOLEAN] :
       nq = [pos |-> "open", chain_exists |-> exists, rules |-> << >>]

\* Queue::open and bind of queue_in and queue_out, each followed by `?`
OpenQueues ==
    /\ nq.pos = "open"
    /\ \E r \in OpenResults :
         nq' = [nq EXCEPT !.pos = IF r = "ok" THEN "activate" ELSE "error"]
    /\ UNCHANGED <<coreVars, pvm, mw, orch, ipt, lst, dirn, restVars>>

\* The result of IpTablesRule::activate on a chain; iptables_ok tells
\* whether every call of iptables succeeds
ActivateResult(chain_exists, iptables_ok) ==
    IF ~iptables_ok THEN "IpTables"
    ELSE IF ~chain_exists THEN "IpTablesChainDoesNotExist"
    ELSE "activated"

\* let rule_x = rule.activate(is_ipv6): the result is bound to a variable
\* and run_nfq goes on
ActivateRule ==
    /\ nq.pos = "activate"
    /\ Len(nq.rules) < Len(RuleNames)
    /\ \E iptables_ok \in BOOLEAN :
         nq' = [nq EXCEPT !.rules =
                   Append(@, ActivateResult(nq.chain_exists[Len(nq.rules) + 1],
                                            iptables_ok))]
    /\ UNCHANGED <<coreVars, pvm, mw, orch, ipt, lst, dirn, restVars>>

\* info!("Starting packet loop") and the first iteration of the loop
StartLoop ==
    /\ nq.pos = "activate"
    /\ Len(nq.rules) = Len(RuleNames)
    /\ nq' = [nq EXCEPT !.pos = "loop"]
    /\ UNCHANGED <<coreVars, pvm, mw, orch, ipt, lst, dirn, restVars>>

\* handle_ipc gives Shutdown: the loop breaks and run_nfq returns Ok
LoopShutdown ==
    /\ nq.pos = "loop"
    /\ nq' = [nq EXCEPT !.pos = "returned"]
    /\ UNCHANGED <<coreVars, pvm, mw, orch, ipt, lst, dirn, restVars>>

-----------------------------------------------------------------------------
(* censor/nfq.rs: the packet loop of run_nfq over queue_in and queue_out *)

MaxArrivals == 3
NumNfqFlows == 2

\* Args::reset_repeat: default_value_t
RESET_REPEAT_DEFAULT == 5

\* The actions process_frame_payload returns to the loop: a Delay has become
\* Drop there, and an error has become None in the loop
LoopReset ==
    [type |-> "Reset", src_mac |-> 0, dst_mac |-> 0, ips |-> IpPair(4, 1, 2),
     ipid |-> 5, src_port |-> 45000, dst_port |-> 80, seq |-> 7, ack |-> 11,
     payload_len |-> 17]

LoopActions == {Act("None"), Act("Ignore"), Act("Drop"), LoopReset}

NqIdle == nq = [pos |-> "none"]

NqInit ==
    \E n \in {ResetRepeat, RESET_REPEAT_DEFAULT} :
       nq = [pos |-> "ipc", reset_repeat |-> n, queue_in |-> << >>,
             queue_out |-> << >>, arrived |-> 0, handled |-> << >>]

\* A packet of a flow arrives on one of the two queues; id is its arrival rank
Arrive ==
    /\ nq.pos \in {"ipc", "in", "out"}
    /\ nq.arrived < MaxArrivals
    /\ \E flow \in 1..NumNfqFlows :
       \E msg \in {[id |-> nq.arrived + 1, flow |-> flow]} :
          \/ nq' = [nq EXCEPT !.arrived = @ + 1, !.queue_in = Append(@, msg)]
          \/ nq' = [nq EXCEPT !.arrived = @ + 1, !.queue_out = Append(@, msg)]
    /\ UNCHANGED <<coreVars, pvm, mw, orch, ipt, lst, dirn, restVars>>

\* The top of the loop: handle_ipc, which ends the loop on Shutdown
LoopHandleIpc ==
    /\ nq.pos = "ipc"
    /\ \E shutdown \in BOOLEAN :
         nq' = [nq EXCEPT !.pos = IF shutdown THEN "stopped" ELSE "in"]
    /\ UNCHANGED <<coreVars, pvm, mw, orch, ipt, lst, dirn, restVars>>

\* What the loop does with a received message: the action of
\* process_frame_payload, the frames written for a Reset, the verdict set
Handle(msg, action, reset_repeat) ==
    [id |-> msg.id, flow |-> msg.flow, action |-> action.type,
     sent |-> IF action.type = "Reset"
              THEN ResetFrames(NfqResets(cfg, action), reset_repeat)
              ELSE << >>,
     verdicts |-> <<Verdict(action)>>]

\* queue.recv() on the queue the for loop is at: WouldBlock goes on to the next
\* queue; a message is processed and given its verdict. The error returns of
\* the loop (recv, ARP table, raw socket, verdict) are not followed
QueueRecv ==
    /\ nq.pos \in {"in", "out"}
    /\ LET queue_ == IF nq.pos = "in" THEN nq.queue_in ELSE nq.queue_out
           next == IF nq.pos = "in" THEN "out" ELSE "ipc"
       IN IF queue_ = << >>
          THEN nq' = [nq EXCEPT !.pos = next]
          ELSE \E action \in LoopActions :
                 nq' = [nq EXCEPT
                          !.pos = next,
                          !.queue_in = IF nq.pos = "in" THEN Tail(@) ELSE @,
                          !.queue_out = IF nq.pos = "out" THEN Tail(@) ELSE @,
                          !.handled = Append(@, Handle(Head(queue_), action,
                                                       nq.reset_repeat))]
    /\ UNCHANGED <<coreVars, pvm, mw, orch, ipt, lst, dirn, restVars>>

-----------------------------------------------------------------------------
(* censor/wire.rs: run_wire and forward_frame; censor/mod.rs: RetryBuffer *)

MaxWireFrames == 3

\* Args::wan_packets and Args::client_packets (1 by default): upto_times
UptoTimes == 1

WireDirections == <<"WanToClient", "ClientToWan">>
WireDirs == {WireDirections[i] : i \in DOMAIN WireDirections}

\* Lengths of the frames on the interfaces
WireLens == {60, 90}

\* What process_frame gives for a frame read from an interface
WireDecisions == {"None", "Ignore", "Drop", "Err"}

\* RetryBuffer::size is None
NoSize == -1
NoData == [id |-> 0, len |-> NoSize]

\* RetryBuffer::for_interface: buf names the frame whose bytes it holds
RetryBufferNew == [buf |-> 0, size |-> NoSize]

\* RetryBuffer::get_data: the first size bytes of buf
RetryGetData(retry) ==
    IF retry.size = NoSize THEN NoData ELSE [id |-> retry.buf, len |-> retry.size]

Success == [t |-> "Success", size |-> NoSize]
TxFull(size) == [t |-> "TxFull", size |-> size]
WireErr == [t |-> "Err", size |-> NoSize]

\* forward_frame for one direction: rx is the receive queue of the source
\* interface, tx_slot tells whether transmit gives a token, send_ok whether
\* the token's consume gives Ok, decision what process_frame gives. The
\* result, the receive queue and the retry buffer after, the frames written
\* to the destination and the frames read
ForwardFrameCall(retry, rx, tx_slot, send_ok, decision) ==
    LET data == RetryGetData(retry)
        idle == [rx |-> rx, retry |-> retry, sent |-> << >>, read |-> << >>]
    IN IF data # NoData
       THEN IF tx_slot /\ send_ok
            THEN [idle EXCEPT !.sent = <<data>>] @@ [result |-> Success]
            ELSE idle @@ [result |-> TxFull(data.len)]
       ELSE IF UptoTimes = 0 \/ rx = << >>
       THEN idle @@ [result |-> Success]
       ELSE LET frame == Head(rx)
                took == [idle EXCEPT !.rx = Tail(rx), !.read = <<frame>>]
            IN IF decision = "Err" THEN took @@ [result |-> WireErr]
               ELSE IF decision = "Drop" THEN took @@ [result |-> Success]
               ELSE IF ~tx_slot THEN took @@ [result |-> WireErr]
               ELSE IF send_ok
               THEN [took EXCEPT !.sent = <<frame>>] @@ [result |-> Success]
               ELSE [took EXCEPT !.retry.buf = frame.id]
                        @@ [result |-> TxFull(frame.len)]

\* A mutant of the match in run_wire: the buffer is cleared after one resend,
\* whatever its result
RetryAfterOneResend(retry, result) ==
    IF result.t = "TxFull" /\ retry.size = NoSize
    THEN [retry EXCEPT !.size = result.size]
    ELSE [retry EXCEPT !.size = NoSize]

\* run_wire, the match on the result of forward_frame: retry.clear() on
\* Success, retry.size = Some(size) on TxFull, nothing on an error
RetryAfter(retry, result) ==
    IF result.t = "Success" THEN [retry EXCEPT !.size = NoSize]
    ELSE IF result.t = "TxFull" THEN [retry EXCEPT !.size = result.size]
    ELSE retry

LastCallNone ==
    [dir |-> "none", had |-> NoData, read |-> << >>, result |-> Success,
     before |-> [d \in WireDirs |-> NoData]]

\* run_wire after the interfaces are opened: the retry buffers are empty and
\* the loop starts with WanToClient. forwardable keeps the frames read that
\* process_frame decided to forward (history)
WireInit ==
    wire = [pos |-> 1,
            rx |-> [d \in WireDirs |-> << >>],
            retry |-> [d \in WireDirs |-> RetryBufferNew],
            sent |-> [d \in WireDirs |-> << >>],
            forwardable |-> [d \in WireDirs |-> {}],
            arrived |-> 0,
            call |-> LastCallNone]

\* A frame arrives on the source interface of a direction
WireArrive ==
    /\ wire.pos \in DOMAIN WireDirections
    /\ wire.arrived < MaxWireFrames
    /\ \E d \in WireDirs, len \in WireLens :
         wire' = [wire EXCEPT
                    !.arrived = @ + 1,
                    !.rx[d] = Append(@, [id |-> wire.arrived + 1, len |-> len])]
    /\ UNCHANGED <<coreVars, pvm, mw, orch, ipt, lst, dirn, nq, vmu>>

\* run_wire: one turn of the for loop over the two directions, forward_frame
\* and the match on its result
ForwardFrame ==
    /\ wire.pos \in DOMAIN WireDirections
    /\ \E tx_slot \in BOOLEAN, send_ok \in BOOLEAN, decision \in WireDecisions :
         LET d == WireDirections[wire.pos]
             fresh == RetryGetData(wire.retry[d]) = NoData /\ wire.rx[d] # << >>
         IN \E r \in {ForwardFrameCall(wire.retry[d], wire.rx[d], tx_slot,
                                        send_ok, decision)} :
              /\ ~fresh => decision = "None"
              /\ (r.read = << >> /\ RetryGetData(wire.retry[d]) = NoData)
                     => (tx_slot /\ send_ok)
              /\ decision \in {"Drop", "Err"} => (tx_slot /\ send_ok)
              /\ ~tx_slot => send_ok
              /\ wire' = [wire EXCEPT
                     !.pos = IF wire.pos = Len(WireDirections) THEN 1 ELSE @ + 1,
                     !.rx[d] = r.rx,
                     !.retry[d] = RetryAfter(r.retry, r.result),
                     !.sent[d] = @ \o r.sent,
                     !.forwardable[d] =
                        IF r.read # << >> /\ decision \in {"None", "Ignore"}
                        THEN @ \cup {r.read[1]} ELSE @,
                     !.call = [dir |-> d, had |-> RetryGetData(wire.retry[d]),
                               read |-> r.read, result |-> r.result,
                               before |-> [x \in WireDirs |->
                                             RetryGetData(wire.retry[x])]]]
    /\ UNCHANGED <<coreVars, pvm, mw, orch, ipt, lst, dirn, nq, vmu>>

-----------------------------------------------------------------------------
(* program/env.rs: one Registers::set followed by Registers::get *)

\* Contents of the register banks before the write
RegisterBanks ==
    { [int |-> i, bool |-> b] :
        i \in [0..(NumRegisters - 1) -> {0, 7}],
        b \in [0..(NumRegisters - 1) -> {0, 1}] }

\* Registers of both banks, the index NumRegisters being outside the bank
WriteRegisters ==
    { [k |-> "Register", ty |-> ty, index |-> index] :
        ty \in {"Int", "Bool"}, index \in 0..NumRegisters }

WriteValues ==
    {[k |-> "Int", v |-> 0], [k |-> "Int", v |-> 5],
     [k |-> "Bool", v |-> 0], [k |-> "Bool", v |-> 1]}

\* Registers::new with relax_register_types, after some writes
RegsInit ==
    \E regs \in RegisterBanks, relax \in BOOLEAN, reg \in WriteRegisters,
       val \in WriteValues :
       vmu = [phase |-> "set", regs |-> regs, relax |-> relax, reg |-> reg,
              val |-> val]

\* registers.set(reg, val), then registers.get(reg) and the get of the
\* register of the same index in the bank of the value
RegistersWrite ==
    /\ vmu.phase = "set"
    /\ \E w \in {RegistersSet(vmu.regs, vmu.relax, vmu.reg, vmu.val)} :
         vmu' = [phase |-> "written", regs |-> vmu.regs, relax |-> vmu.relax,
                 reg |-> vmu.reg, val |-> vmu.val,
                 ok |-> w.ok, err |-> w.err, after |-> w.regs,
                 read |-> RegistersGet(w.regs, vmu.reg),
                 read_same_bank |->
                    RegistersGet(w.regs, [vmu.reg EXCEPT !.ty = vmu.val.k])]
    /\ UNCHANGED <<coreVars, pvm, mw, orch, ipt, lst, dirn, nq, wire>>

-----------------------------------------------------------------------------
(* program/program.rs: field::Field::eval and a program that reads a field *)

\* Fields of every kind: the environment, the timestamp, IP fields of both
\* versions and of either, TCP and UDP fields
VmFields ==
    {"Env.NumPackets", "Timestamp", "Ip.HopLimit", "Ip.V4.Ident",
     "Ip.V6.FlowLabel", "Tcp.Seq", "Udp.Length"}

\* Packets of both IP versions and transport protocols, with a timestamp or
\* without (timestamp 0)
VmPackets ==
    { [ver |-> ver, proto |-> proto, timestamp |-> ts, hop_limit |-> 64,
       ident |-> 5, flow_label |-> 9, seq |-> 7, length |-> 17] :
        ver \in {4, 6}, proto \in {"Tcp", "Udp"}, ts \in {0, 2} }

FloatV(f) == [k |-> "Float", v |-> f]
FieldErr(e) == [k |-> "Err", v |-> e]

\* What the match of the eval of the field's kind gives before the default
FieldExtract(field, pkt, num_packets) ==
    CASE field = "Env.NumPackets" -> IntV(num_packets)
      [] field = "Timestamp" ->
            IF pkt.timestamp = 0 THEN FieldErr("Timestamp")
            ELSE FloatV(pkt.timestamp)
      [] field = "Ip.HopLimit" -> IntV(pkt.hop_limit)
      [] field = "Ip.V4.Ident" ->
            IF pkt.ver = 4 THEN IntV(pkt.ident) ELSE FieldErr("WrongIpVersion")
      [] field = "Ip.V6.FlowLabel" ->
            IF pkt.ver = 6 THEN IntV(pkt.flow_label)
            ELSE FieldErr("WrongIpVersion")
      [] field = "Tcp.Seq" ->
            IF pkt.proto = "Tcp" THEN IntV(pkt.seq) ELSE FieldErr("WrongProtocol")
      [] field = "Udp.Length" ->
            IF pkt.proto = "Udp" THEN IntV(pkt.length)
            ELSE FieldErr("WrongProtocol")

\* A mutant of Field::eval: the error is returned whatever the flag
FieldEvalNoDefault(field, pkt, num_packets, default_on_error) ==
    FieldExtract(field, pkt, num_packets)

\* field::Field::eval over ip::Field::eval, tcp::Field::eval, udp::Field::eval
FieldEval(field, pkt, num_packets, default_on_error) ==
    LET result == FieldExtract(field, pkt, num_packets)
    IN IF result.k # "Err" \/ ~default_on_error THEN result
       ELSE IF field = "Timestamp" THEN FloatV(0)
       ELSE BoolV(FALSE)

\* Input::eval of Input::Field as an input of a line: an error is an input
\* without a value
FieldInput(val) == IF val.k = "Err" THEN NoValue ELSE val

\* The program  if <field> == false: COPY 1 -> reg:i.0 ; COPY 1 -> reg:i.1
\* with the field read as val
FieldProgram(val) ==
    << ProgramLine(Cond(FieldInput(val), "Equal", BoolV(FALSE)),
                   CopyOp(IntV(1), RegIn("Int", 0))),
       ProgramLine(NoCondition, CopyOp(IntV(1), RegIn("Int", 1))) >>

FieldInit ==
    \E field \in VmFields, pkt \in VmPackets, default_on_error \in BOOLEAN :
       vmu = [phase |-> "field", field |-> field, pkt |-> pkt,
              default_on_error |-> default_on_error]

\* Program::run of the program on the first packet of a flow
FieldRun ==
    /\ vmu.phase = "field"
    /\ \E val \in {FieldEval(vmu.field, vmu.pkt, 1, vmu.default_on_error)} :
         vmu' = [phase |-> "ran", field |-> vmu.field, pkt |-> vmu.pkt,
                 default_on_error |-> vmu.default_on_error,
                 extracted |-> FieldExtract(vmu.field, vmu.pkt, 1),
                 value |-> val,
                 result |-> ProgramRun(FieldProgram(val), 0, RegistersNew, FALSE)]
    /\ UNCHANGED <<coreVars, pvm, mw, orch, ipt, lst, dirn, nq, wire>>

-----------------------------------------------------------------------------
(* program/program.rs: MathOperator::call over the three types of value *)

\* i64 scaled down to IntBits bits; u8 keeps its width
IntBits == 4
IntMin == -(2 ^ (IntBits - 1))
IntMax == 2 ^ (IntBits - 1) - 1
U8Max == 255

NumericOperators == {"Add", "Sub", "Mul", "Div", "Mod"}
LogicOperators == {"And", "Or", "Xor", "Nand", "Nor", "Xnor"}

\* Floats are the whole numbers of a small range: arithmetic on them is
\* exact, and a division is only called where the quotient is whole
FloatValues == {-6, -1, 0, 2, 6}

MathValues ==
    { IntV(i) : i \in IntMin..IntMax } \cup { BoolV(b) : b \in BOOLEAN }
        \cup { FloatV(f) : f \in FloatValues }

Abs(n) == IF n < 0 THEN -n ELSE n

\* The / and % of Rust on integers, and on floats of whole value: the
\* quotient is rounded towards zero and the remainder has the sign of lhs
TruncDiv(lhs, rhs) ==
    IF (lhs < 0) = (rhs < 0) THEN Abs(lhs) \div Abs(rhs)
    ELSE -(Abs(lhs) \div Abs(rhs))
TruncRem(lhs, rhs) == lhs - rhs * TruncDiv(lhs, rhs)

\* The values of a type T of MathOperatorNumeric::call
InType(ty, n) ==
    CASE ty = "i64" -> n \in IntMin..IntMax
      [] ty = "u8" -> n \in 0..U8Max
      [] ty = "f64" -> TRUE

\* The wrapped result of an operation of a build without overflow checks
WrapTo(ty, n) ==
    IF ty = "u8" THEN n % (U8Max + 1)
    ELSE ((n - IntMin) % (2 ^ IntBits)) + IntMin

Panic == [k |-> "Panic", v |-> 0]

\* MathOperatorNumeric::call on type ty: + - * panic on overflow in a build
\* with overflow checks and wrap in a build without; / and % of the least
\* i64 by -1 panic in every build
NumericCall(op, lhs, rhs, ty, overflow_checks) ==
    LET exact ==
            CASE op = "Add" -> lhs + rhs
              [] op = "Sub" -> lhs - rhs
              [] op = "Mul" -> lhs * rhs
              [] op = "Div" -> IF rhs # 0 THEN TruncDiv(lhs, rhs) ELSE 0
              [] op = "Mod" -> IF rhs # 0 THEN TruncRem(lhs, rhs) ELSE 0
    IN IF op \in {"Div", "Mod"} /\ ty = "i64" /\ lhs = IntMin /\ rhs = -1
       THEN Panic
       ELSE IF InType(ty, exact) THEN [k |-> ty, v |-> exact]
       ELSE IF overflow_checks THEN Panic
       ELSE [k |-> ty, v |-> WrapTo(ty, exact)]

\* LogicOperator::call
LogicCall(op, lhs, rhs) ==
    CASE op = "And" -> lhs /\ rhs
      [] op = "Or" -> lhs \/ rhs
      [] op = "Xor" -> lhs # rhs
      [] op = "Nand" -> ~(lhs /\ rhs)
      [] op = "Nor" -> ~(lhs \/ rhs)
      [] op = "Xnor" -> lhs = rhs

\* The type the match of MathOperator::call computes a pair of values in
CommonType(lhs, rhs) ==
    IF lhs.k = "Float" \/ rhs.k = "Float" THEN "f64"
    ELSE IF lhs.k = "Int" \/ rhs.k = "Int" THEN "i64"
    ELSE "u8"

\* MathOperator::call; a panic of the operation is the result Panic
MathOperatorCall(op, lhs, rhs, overflow_checks) ==
    IF op \in LogicOperators
    THEN BoolV(LogicCall(op, AsBool(lhs), AsBool(rhs)))
    ELSE LET ty == CommonType(lhs, rhs)
             res == NumericCall(op, lhs.v, rhs.v, ty, overflow_checks)
         IN IF res.k = "Panic" THEN Panic
            ELSE IF ty = "f64" THEN FloatV(res.v)
            ELSE IntV(res.v)

\* Whether the float division has a whole quotient
WholeQuotient(op, lhs, rhs) ==
    IF op # "Div" \/ CommonType(lhs, rhs) # "f64" \/ rhs.v = 0 THEN TRUE
    ELSE lhs.v % Abs(rhs.v) = 0

MathInit ==
    \E op \in NumericOperators \cup LogicOperators,
       lhs \in MathValues, rhs \in MathValues, overflow_checks \in BOOLEAN :
       /\ WholeQuotient(op, lhs, rhs)
       /\ vmu = [phase |-> "math", op |-> op, lhs |-> lhs, rhs |-> rhs,
                 overflow_checks |-> overflow_checks]

\* The call of MathOperator::call in Line::run_math_operator
MathRun ==
    /\ vmu.phase = "math"
    /\ vmu' = [phase |-> "called", op |-> vmu.op, lhs |-> vmu.lhs,
               rhs |-> vmu.rhs, overflow_checks |-> vmu.overflow_checks,
               result |-> MathOperatorCall(vmu.op, vmu.lhs, vmu.rhs,
                                           vmu.overflow_checks)]
    /\ UNCHANGED <<coreVars, pvm, mw, orch, ipt, lst, dirn, nq, wire>>

-----------------------------------------------------------------------------
(* Variables that a specification leaves alone *)

WireIdle == wire = [pos |-> "none"]
VmuIdle == vmu = [phase |-> "none"]
RestIdle == WireIdle /\ VmuIdle
UnitIdle == LstIdle /\ DirIdle /\ NqIdle /\ RestIdle

-----------------------------------------------------------------------------
(* Specifications *)

\* The subsystems outside the packet pipeline at rest
ExtIdle == PvmIdle /\ MwIdle /\ OrchIdle /\ IptIdle /\ UnitIdle

\* The NFQ packet pipeline with the flow table and the censorlang environment
Init == KeyIdle /\ NfqInit /\ EnvInit /\ DelayInit /\ ExtIdle

Next == NfqRecv \/ EnvProcess

Spec == Init /\ [][Next]_vars

\* ConnectionKey::new alone
KeyOnlyInit == KeyInit /\ NfqIdle /\ EnvIdle /\ DelayInit /\ ExtIdle

KeyNext == KeyCompute

SpecKey == KeyOnlyInit /\ [][KeyNext]_vars

\* The Delayer task
DelayerInit == KeyIdle /\ NfqIdle /\ EnvIdle /\ DelayInit /\ ExtIdle

DelayerNext == DelayPacket \/ Recv \/ TimerFire \/ Close \/ RecvNone \/ Abort \/ Tick

SpecDelayer == DelayerInit /\ [][DelayerNext]_vars

\* The Delayer task under the scheduling of the runtime: a ready branch of
\* select! is taken, the clock advances
SpecDelayerFair ==
    SpecDelayer /\ WF_vars(Recv) /\ WF_vars(TimerFire) /\ WF_vars(Tick)
                /\ WF_vars(RecvNone)

\* A Program loaded with Program::new and run on the packets of one flow
ProgramInit ==
    /\ KeyIdle /\ NfqIdle /\ EnvIdle /\ DelayInit
    /\ PvmInit /\ MwIdle /\ OrchIdle /\ IptIdle /\ UnitIdle

ProgramNext == ProgramNew \/ ProgramPacket

SpecProgram == ProgramInit /\ [][ProgramNext]_vars

\* The model thread serving the Model handles of the flows
ModelInit ==
    /\ KeyIdle /\ NfqIdle /\ EnvIdle /\ DelayInit
    /\ PvmIdle /\ MwInit /\ OrchIdle /\ IptIdle /\ UnitIdle

ModelNext == \/ ModelEvaluate \/ ModelEvaluateReturn \/ WorkerRequest
             \/ WorkerShutdown \/ SendShutdown

SpecModel == ModelInit /\ [][ModelNext]_vars

\* Censor::run with the IPC listener and the signal handler
OrchestratorInit ==
    /\ KeyIdle /\ NfqIdle /\ EnvIdle /\ DelayInit
    /\ PvmIdle /\ MwIdle /\ OrchInit /\ IptIdle /\ UnitIdle

OrchestratorNext ==
    \/ IpcConnection \/ SignalReceived \/ NfqHandleIpc \/ WireForward
    \/ SubcmdError \/ RunAfterSubcmd \/ JoinIpc \/ JoinSig

SpecOrchestrator == OrchestratorInit /\ [][OrchestratorNext]_vars

\* Censor::run under the scheduling of the runtime: the packet loop goes
\* round, and Censor::run goes on when what it awaits is ready
SpecOrchestratorFair ==
    /\ OrchestratorInit /\ [][OrchestratorNext]_vars
    /\ WF_vars(NfqHandleIpc) /\ WF_vars(RunAfterSubcmd)
    /\ WF_vars(JoinIpc) /\ WF_vars(JoinSig)

\* The iptables rule of run_nfq on a chain with prior content
IpTablesInit ==
    /\ KeyIdle /\ NfqIdle /\ EnvIdle /\ DelayInit
    /\ PvmIdle /\ MwIdle /\ OrchIdle /\ IptInit /\ UnitIdle

IpTablesNext == Activate \/ ActivateError \/ DropActivated

SpecIpTables == IpTablesInit /\ [][IpTablesNext]_vars

\* AllowBlockList::recommend and recommend_either on every list and value
ListInit ==
    /\ KeyIdle /\ NfqIdle /\ EnvIdle /\ DelayInit
    /\ PvmIdle /\ MwIdle /\ OrchIdle /\ IptIdle /\ LstInit /\ DirIdle /\ NqIdle
    /\ RestIdle

ListNext == Recommend

SpecList == ListInit /\ [][ListNext]_vars

\* The direction of every packet against every client IP
DirectionInit ==
    /\ KeyIdle /\ NfqIdle /\ EnvIdle /\ DelayInit
    /\ PvmIdle /\ MwIdle /\ OrchIdle /\ IptIdle /\ LstIdle /\ DirInit /\ NqIdle
    /\ RestIdle

DirectionNext == Derive

SpecDirection == DirectionInit /\ [][DirectionNext]_vars

\* The censorlang environment of one TCP flow over the packets of the flow
FlowOnlyInit == KeyIdle /\ NfqIdle /\ FlowInit /\ DelayInit /\ ExtIdle
FlowNext == FlowPacket
SpecFlow == FlowOnlyInit /\ [][FlowNext]_vars

\* The flow table of TransportState over the packets of two TCP flows
TableOnlyInit == KeyIdle /\ TableInit /\ EnvIdle /\ DelayInit /\ ExtIdle
TableNext == TablePacket
SpecTable == TableOnlyInit /\ [][TableNext]_vars

\* The flow table while packets keep arriving: the packet loop hands every
\* packet it reads to the pipeline
SpecTableFair == SpecTable /\ WF_vars(TablePacket)

\* run_nfq up to its packet loop
NfqStartOnlyInit ==
    /\ KeyIdle /\ NfqIdle /\ EnvIdle /\ DelayInit
    /\ PvmIdle /\ MwIdle /\ OrchIdle /\ IptIdle /\ LstIdle /\ DirIdle
    /\ NfqStartInit /\ RestIdle
NfqStartNext == OpenQueues \/ ActivateRule \/ StartLoop \/ LoopShutdown
SpecNfqStart == NfqStartOnlyInit /\ [][NfqStartNext]_vars

\* run_wire forwarding between the two interfaces
WireOnlyInit ==
    /\ KeyIdle /\ NfqIdle /\ EnvIdle /\ DelayInit
    /\ PvmIdle /\ MwIdle /\ OrchIdle /\ IptIdle
    /\ LstIdle /\ DirIdle /\ NqIdle /\ WireInit /\ VmuIdle
WireNext == WireArrive \/ ForwardFrame
SpecWire == WireOnlyInit /\ [][WireNext]_vars

\* One write to the registers under every content, flag, register and value
RegistersInit ==
    /\ KeyIdle /\ NfqIdle /\ EnvIdle /\ DelayInit
    /\ PvmIdle /\ MwIdle /\ OrchIdle /\ IptIdle
    /\ LstIdle /\ DirIdle /\ NqIdle /\ WireIdle /\ RegsInit
RegistersNext == RegistersWrite
SpecRegisters == RegistersInit /\ [][RegistersNext]_vars

\* A program that reads a field, on every field, packet and flag
FieldOnlyInit ==
    /\ KeyIdle /\ NfqIdle /\ EnvIdle /\ DelayInit
    /\ PvmIdle /\ MwIdle /\ OrchIdle /\ IptIdle
    /\ LstIdle /\ DirIdle /\ NqIdle /\ WireIdle /\ FieldInit
FieldNext == FieldRun
SpecField == FieldOnlyInit /\ [][FieldNext]_vars

\* One arithmetic or logic operation on every pair of values
MathOnlyInit ==
    /\ KeyIdle /\ NfqIdle /\ EnvIdle /\ DelayInit
    /\ PvmIdle /\ MwIdle /\ OrchIdle /\ IptIdle
    /\ LstIdle /\ DirIdle /\ NqIdle /\ WireIdle /\ MathInit
MathNext == MathRun
SpecMath == MathOnlyInit /\ [][MathNext]_vars

\* The packet loop of run_nfq with packets arriving on both queues
NfqLoopInit ==
    /\ KeyIdle /\ NfqIdle /\ EnvIdle /\ DelayInit
    /\ PvmIdle /\ MwIdle /\ OrchIdle /\ IptIdle /\ LstIdle /\ DirIdle /\ NqInit
    /\ RestIdle

NfqLoopNext == Arrive \/ LoopHandleIpc \/ QueueRecv

SpecNfqLoop == NfqLoopInit /\ [][NfqLoopNext]_vars

-----------------------------------------------------------------------------
(* Properties *)

\* Number of evaluations of process(packet) among the host's steps
ProcessCalls(trace) == Cardinality({i \in DOMAIN trace : trace[i] = "process"})

\* Position of a step among the host's steps, 0 when absent
StepIndex(trace, step) ==
    IF \E i \in DOMAIN trace : trace[i] = step
    THEN CHOOSE i \in DOMAIN trace : trace[i] = step
    ELSE 0

\* s and the lower-case word w are the same up to the case of the letters
EqIgnoreCase(s, w) ==
    /\ Len(s) = Len(w)
    /\ \A i \in 1..Len(s) :
         \/ s[i] = w[i]
         \/ \E j \in 1..Len(UpperChars) : s[i] = UpperChars[j] /\ w[i] = LowerChars[j]

\* The last packet was handed to the script policy of a flow
ScriptHandled == last.stage = "policy" /\ cfg.execution_mode = "Python"

\* C1: ConnectionKey::new gives the same key for (src,dst,sport,dport) and for
\* (dst,src,dport,sport), for every input, also when src = dst and the ports
\* differ.
C1_KeySymmetric == keyOut.done => keyOut.fwd = keyOut.rev

C1_Witness ==
    /\ keyOut.done
    /\ keyIn.ips.src = keyIn.ips.dst
    /\ keyIn.sport # keyIn.dport
    /\ keyOut.fwd # keyOut.rev

\* C2: for a Reset decided on a TCP packet with ports (sp, dp), sequence
\* number s, acknowledgement number a and payload length n, every
\* client-facing frame that the NFQ back-end emits has the MACs and the IPs
\* swapped, source port dp, destination port sp, sequence number a,
\* acknowledgement number s+n (mod 2^32) and exactly the flags ACK and RST.
C2_ClientReset ==
    (last.stage = "policy" /\ last.action.type = "Reset") =>
        /\ Len(last.sent) = 2 * cfg.reset_repeat
        /\ \A i \in 1..cfg.reset_repeat :
             LET f == last.sent[2 * i - 1]
                 pkt == last.frame
             IN /\ f.eth_src = ResolveMac(cfg, pkt.ver, pkt.dst)
                /\ f.eth_dst = ResolveMac(cfg, pkt.ver, pkt.src)
                /\ f.ip_src = pkt.dst
                /\ f.ip_dst = pkt.src
                /\ f.tcp.src_port = pkt.dport
                /\ f.tcp.dst_port = pkt.sport
                /\ f.tcp.seq_number = pkt.ack
                /\ f.tcp.ack_number = SeqAdd(pkt.seq, pkt.len)
                /\ f.tcp.flags = {"ACK", "RST"}

\* What the client-facing frame does carry: sequence number s and
\* acknowledgement number a+n
C2_Witness ==
    /\ last.stage = "policy"
    /\ last.action.type = "Reset"
    /\ last.frame.seq # last.frame.ack
    /\ last.sent[1].tcp.seq_number = last.frame.seq
    /\ last.sent[1].tcp.ack_number = SeqAdd(last.frame.ack, last.frame.len)

\* C3: for a Reset decided on a TCP packet with ports (sp, dp), sequence
\* number s and acknowledgement number a, every server-facing frame that the
\* NFQ back-end emits has the MACs and the IPs of the packet, source port sp,
\* destination port dp, sequence number s, acknowledgement number a and
\* exactly the flags ACK and RST.
C3_ServerReset ==
    (last.stage = "policy" /\ last.action.type = "Reset") =>
        /\ Len(last.sent) = 2 * cfg.reset_repeat
        /\ \A i \in 1..cfg.reset_repeat :
             LET f == last.sent[2 * i]
                 pkt == last.frame
             IN /\ f.eth_src = ResolveMac(cfg, pkt.ver, pkt.src)
                /\ f.eth_dst = ResolveMac(cfg, pkt.ver, pkt.dst)
                /\ f.ip_src = pkt.src
                /\ f.ip_dst = pkt.dst
                /\ f.tcp.src_port = pkt.sport
                /\ f.tcp.dst_port = pkt.dport
                /\ f.tcp.seq_number = pkt.seq
                /\ f.tcp.ack_number = pkt.ack
                /\ f.tcp.flags = {"ACK", "RST"}

\* What the server-facing frame does carry: sequence number a and
\* acknowledgement number s
C3_Witness ==
    /\ last.stage = "policy"
    /\ last.action.type = "Reset"
    /\ last.frame.seq # last.frame.ack
    /\ last.sent[2].tcp.seq_number = last.frame.ack
    /\ last.sent[2].tcp.ack_number = last.frame.seq

\* C4: the string that process(packet) returns is mapped to an action without
\* regard to case: "allow" gives None, "drop" gives Drop, "reset" gives on a
\* TCP packet a Reset with the packet's IP pair, ports, sequence number,
\* acknowledgement number and payload length and on another packet Drop; a
\* string that begins with "inject", any other string and a result that is no
\* string give None.
C4_ResultMapping ==
    (ScriptHandled /\ last.result.t \in {"str", "nonstr"}) =>
        LET pkt == last.frame
            a == last.action
        IN IF last.result.t = "str" /\ EqIgnoreCase(last.result.s, StrReset)
           THEN IF pkt.proto = "Tcp"
                THEN /\ a.type = "Reset"
                     /\ a.ips = IpPair(pkt.ver, pkt.src, pkt.dst)
                     /\ a.src_port = pkt.sport
                     /\ a.dst_port = pkt.dport
                     /\ a.seq = pkt.seq
                     /\ a.ack = pkt.ack
                     /\ a.payload_len = pkt.len
                ELSE a = Act("Drop")
           ELSE IF last.result.t = "str" /\ EqIgnoreCase(last.result.s, StrDrop)
           THEN a = Act("Drop")
           ELSE a = Act("None")

C4_Witness ==
    /\ ScriptHandled
    /\ last.result.t = "str"
    /\ last.result.s = <<"D", "r", "o", "p">>
    /\ last.action = Act("Drop")

\* C5 as claimed: process(packet) is evaluated once for every packet of a flow
\* handed to the script, the first one included, whatever the init script did.
C5_ProcessOncePerPacket == ScriptHandled => ProcessCalls(last.trace) = 1

\* C5 amended: process(packet) is evaluated once for a packet when the init
\* script did not raise on it and the scope binds `process` to a callable and
\* binds `packet`; otherwise it is not evaluated for that packet.
C5_ProcessOnceUnlessInitRaised ==
    ScriptHandled =>
        ProcessCalls(last.trace) =
            IF /\ last.init # "raised"
               /\ last.lookup.process = "callable"
               /\ last.lookup.packet
            THEN 1 ELSE 0

C5_Witness ==
    /\ ScriptHandled
    /\ last.first
    /\ last.init = "raised"
    /\ last.lookup.process = "callable"
    /\ ProcessCalls(last.trace) = 0

\* The init script runs once per flow entry, on the entry's first packet and
\* before process(packet)
InitOncePerEntry ==
    /\ \A k \in DOMAIN connections :
         connections[k].env.t = "Python" => connections[k].inits = 1
    /\ ScriptHandled =>
         /\ last.first <=> StepIndex(last.trace, "init") # 0
         /\ last.first <=> last.key \notin DOMAIN last.before
         /\ ProcessCalls(last.trace) > 0 /\ last.first =>
              StepIndex(last.trace, "init") < StepIndex(last.trace, "process")

\* C6 as claimed: the init script runs exactly once per flow, on its first
\* packet and before process(packet), never again, and `model` is bound in the
\* flow's scope from then on.
C6_InitOnceModelBound ==
    /\ InitOncePerEntry
    /\ \A k \in DOMAIN connections :
         connections[k].env.t = "Python" => connections[k].env.scope.model

\* C6 amended: the init script runs exactly once per flow entry, on its first
\* packet and before process(packet), never again; `model` is bound in the
\* flow's scope from then on if and only if the init script did not raise.
C6_InitOnceModelBoundUnlessRaised ==
    /\ InitOncePerEntry
    /\ \A k \in DOMAIN connections :
         connections[k].env.t = "Python" =>
             (connections[k].env.scope.model <=> ~connections[k].raised)

C6_Witness ==
    /\ ScriptHandled
    /\ last.key \in DOMAIN last.before
    /\ ~last.first
    /\ last.before[last.key].raised
    /\ ~connections[last.key].env.scope.model
    /\ connections[last.key].inits = 1
    /\ ProcessCalls(last.trace) = 1

C10_EventuallyTransmitted ==
    /\ [](\A i \in DOMAIN transmitted :
            \E j \in DOMAIN submitted :
                /\ submitted[j].payload = transmitted[i].payload
                /\ submitted[j].time <= transmitted[i].at)
    /\ \A p \in 1..MaxSubmit :
         (Len(submitted) >= p) ~>
             \/ \E i \in DOMAIN transmitted : transmitted[i].payload = p
             \/ dstate # "running"

\* A payload was received while nothing was armed, and is held nowhere
C10_Witness ==
    /\ Len(submitted) = 1
    /\ queue = << >>
    /\ dlast = "recv"
    /\ dstate = "running"
    /\ next_packet = NoPacket
    /\ packet_queue = {}
    /\ transmitted = << >>

\* The payloads of a sequence of packets or transmissions, in order
PayloadsOf(seq) == [i \in DOMAIN seq |-> seq[i].payload]

\* Deadline given to a payload at its submission
DeadlineOf(p) == submitted[p].time

\* C11: payloads submitted before the earliest of their deadlines are
\* transmitted in non-decreasing order of deadline, whatever the order of
\* their submission (and so in submission order when the deadlines increase).
C11_DeadlineOrder ==
    /\ [](\A i, j \in DOMAIN transmitted :
            i < j => DeadlineOf(transmitted[i].payload)
                         <= DeadlineOf(transmitted[j].payload))
    /\ (Len(submitted) = MaxSubmit /\ \A i \in DOMAIN submitted : now < submitted[i].time)
         ~> \/ dstate # "running"
            \/ /\ Len(transmitted) = Len(submitted)
               /\ \A p \in DOMAIN submitted :
                    \E i \in DOMAIN transmitted : transmitted[i].payload = p

\* All payloads were submitted, out of deadline order, before the earliest
\* deadline, and all deadlines have passed with nothing sent
C11_Witness ==
    /\ Len(submitted) = MaxSubmit
    /\ submitted[1].time > submitted[2].time
    /\ \A i \in DOMAIN submitted : submitted[i].time <= now /\ submitted[i].time > 0
    /\ queue = << >>
    /\ dlast = "timer"
    /\ dstate = "running"
    /\ transmitted = << >>

\* The last ProgramEnv::process call found the environment latched
Latched == /\ plast.before # NoInfo
           /\ plast.before.default_action \in {"AllowAll", "TerminateAll"}

\* C12: once the program has returned AllowAll or TerminateAll for a flow,
\* for every later packet of the flow the program is not run, no register
\* changes, the latch keeps its value, and the packet's action is Allow after
\* AllowAll and TerminateAll after TerminateAll.
C12_LatchHolds ==
    Latched =>
       /\ ~plast.ran
       /\ penv.registers = plast.before.registers
       /\ penv.default_action = plast.before.default_action
       /\ plast.action = IF plast.before.default_action = "AllowAll"
                         THEN "Allow" ELSE "TerminateAll"

C12_Witness ==
    /\ Latched
    /\ plast.before.registers > 0
    /\ ProgramRuns([plast.before EXCEPT !.default_action = "Allow"], plast.pkt)
    /\ plast.action = "TerminateAll"

\* C13: the optimizer is idempotent: optimising an optimised program leaves it
\* unchanged, the same lines in the same order.
C13_OptimiseIdempotent ==
    pvm.phase = "loaded" => pvm.again = pvm.optimised

C13_Witness ==
    /\ pvm.phase = "loaded"
    /\ pvm.optimised # pvm.lines
    /\ Len(pvm.optimised) > 1

\* C14: the optimizer preserves behaviour: for every packet of a flow the
\* optimised program gives the action the program as written gives, and so
\* latches the flow at the same packet with the same value.
C14_OptimisePreserves ==
    pvm.phase = "loaded" =>
       /\ pvm.oaction = pvm.action
       /\ pvm.oflow.default_action = pvm.flow.default_action

C14_Witness ==
    /\ pvm.phase = "loaded"
    /\ pvm.runs = MaxRuns
    /\ pvm.optimised # pvm.lines
    /\ pvm.action = "TerminateAll"

\* The requests sent to the model thread ahead of Shutdown, in order
RECURSIVE RequestsBeforeShutdown(_)
RequestsBeforeShutdown(sent) ==
    IF sent = << >> \/ Head(sent).id = 0 THEN << >>
    ELSE <<Head(sent).id>> \o RequestsBeforeShutdown(Tail(sent))

IsPrefix(s, t) == Len(s) <= Len(t) /\ s = SubSeq(t, 1, Len(s))

C16_ShutdownReturns ==
    /\ [](orch.left_by = "shutdown" /\ orch.run # "subcmd" =>
             orch.ipc \in {"ended", "aborted"} /\ orch.sig = "aborted")
    /\ (orch.shutdown_placed ~> (orch.run = "returned" /\ orch.cmd_result = "ok"))

C16_Witness ==
    /\ orch.shutdown_placed
    /\ orch.left_by = "shutdown"
    /\ orch.run = "join_ipc"

\* Whether an IPC request is one the server handles
RequestValid(req) ==
    \/ IpcOpcodeTryFrom(req.opcode) = "Shutdown"
    \/ /\ IpcOpcodeTryFrom(req.opcode) = "UpdateModel"
       /\ ModelScopeTryFrom(req.scope) # "Invalid"
       /\ req.body = "complete"

\* C17: for every IPC connection the server writes exactly one 2-byte reply,
\* OK when the request was handled and NO when it is unknown or cannot be
\* read or parsed; a rejected request puts nothing on the control channel and
\* the listener keeps accepting after it and after a handled UpdateModel; a
\* Shutdown request puts exactly one Shutdown message on the control channel,
\* is answered OK and ends the listener.
C17_IpcReplies ==
    orch.conn # NoConn =>
       /\ Len(orch.conn.written) = 1
       /\ Len(orch.conn.written[1]) = 2
       /\ orch.conn.written[1] =
             IF RequestValid(orch.conn) THEN IPC_SUCCESS ELSE IPC_FAILURE
       /\ ~RequestValid(orch.conn) =>
             orch.conn.sent = << >> /\ orch.conn.listening
       /\ IpcOpcodeTryFrom(orch.conn.opcode) = "UpdateModel" => orch.conn.listening
       /\ IpcOpcodeTryFrom(orch.conn.opcode) = "Shutdown" =>
             orch.conn.sent = <<"Shutdown">> /\ ~orch.conn.listening

C17_Witness ==
    /\ orch.conn # NoConn
    /\ IpcOpcodeTryFrom(orch.conn.opcode) = "Shutdown"
    /\ orch.conn.written = <<IPC_SUCCESS>>
    /\ orch.nconns = 2

\* The rules of a chain that carry the CensorLab comment, and the others
Tagged(chain) == SelectSeq(chain, LAMBDA r : r.comment = IPTABLES_COMMENT)
Untagged(chain) == SelectSeq(chain, LAMBDA r : r.comment # IPTABLES_COMMENT)

\* C18: whatever rules tagged with the CensorLab comment the chain held, after
\* a rule is activated the chain holds exactly one CensorLab rule, the one
\* just appended; after the activated rule is dropped it holds none; rules
\* without the CensorLab comment are never changed.
C18_OneCensorLabRule ==
    /\ ipt.phase = "activated" =>
          /\ Tagged(ipt.chain) = <<RuleString(ipt.queue_num)>>
          /\ ipt.chain[Len(ipt.chain)] = RuleString(ipt.queue_num)
    /\ ipt.phase = "dropped" => Tagged(ipt.chain) = << >>
    /\ Untagged(ipt.chain) = Untagged(ipt.prior)

C18_Witness ==
    /\ ipt.phase = "dropped"
    /\ Len(Tagged(ipt.prior)) = 2
    /\ Len(Untagged(ipt.prior)) = 1
    /\ Tagged(ipt.chain) = << >>

-----------------------------------------------------------------------------
(* Frames that are not TCP or UDP packets *)

\* The configured action of the layer that stops a frame
LayerAction(c, frame) ==
    CASE frame.kind = "ethertype" -> c.ethernet_unknown
      [] frame.kind = "arp" -> c.arp_action
      [] frame.kind = "icmp" -> c.icmp_action
      [] frame.kind = "ipproto" -> c.ip_unknown

\* C19: a frame with an unknown ethertype, an ARP frame, an ICMP packet and an
\* IP packet with another next protocol get the configured action of their
\* layer: ethernet.unknown, arp.action, icmp.action, ip.unknown
C19_LayerAction ==
    last.frame.kind \in {"ethertype", "arp", "icmp", "ipproto"}
        => last.action = LayerAction(cfg, last.frame)

\* An ICMP packet has been through the pipeline with icmp.action set to Drop
C19_Witness ==
    /\ last.frame.kind = "icmp"
    /\ cfg.icmp_action = Act("Drop")
    /\ last.stage = "unparsed"

-----------------------------------------------------------------------------
(* Allow/block lists *)

\* The recommendations of the lists of the packet's layers: the IP list of
\* its version on its addresses, the port and ip-port lists of its transport
\* protocol on its ports and (address, port) pairs
LayerRecommends(c, pkt) ==
    LET ip_list == IF pkt.ver = 4 THEN c.ipv4_list ELSE c.ipv6_list
        port_list == IF pkt.proto = "Tcp" THEN c.tcp_port_list
                     ELSE c.udp_port_list
        ip_port_list == IF pkt.proto = "Tcp" THEN c.tcp_ip_port_list
                        ELSE c.udp_ip_port_list
    IN { RecommendEither(ip_list, pkt.src, pkt.dst),
         RecommendEither(port_list, pkt.sport, pkt.dport),
         RecommendEither(ip_port_list, <<pkt.src, pkt.sport>>,
                         <<pkt.dst, pkt.dport>>) }

\* The terminal ones among them
TerminalRecommends(c, pkt) == {r \in LayerRecommends(c, pkt) : ~IsContinue(r)}

\* C20: a TCP or UDP packet is stopped by a list exactly when a list of its
\* own layers (IP list of its version, port and ip-port list of its protocol)
\* recommends a terminal action for its addresses or ports; it then gets that
\* action and the flow table is left as it was
C20_ListsOfLayer ==
    last.frame.kind = "transport" =>
        IF TerminalRecommends(cfg, last.frame) = {}
        THEN last.stage # "list"
        ELSE /\ last.stage = "list"
             /\ last.action.type \in
                    {r.type : r \in TerminalRecommends(cfg, last.frame)}
             /\ connections = last.before

\* A UDP packet to port 80 has been through the pipeline with port 80 on the
\* UDP port blocklist and has created a flow entry
C20_Witness ==
    /\ last.frame.kind = "transport"
    /\ last.frame.proto = "Udp"
    /\ 80 \in cfg.udp_port_list.block.store
    /\ last.stage = "policy"
    /\ connections # last.before

-----------------------------------------------------------------------------
(* Allow/block lists on their own *)

\* C21: recommend(v) is the blocklist's action when v is on the blocklist and
\* that action is not None; otherwise it is the allowlist's action when v is
\* not on the allowlist, and no decision when v is on the allowlist
C21_BlockFirst ==
    lst.phase = "answered" =>
        lst.rec_a =
            IF lst.a \in lst.abl.block.store /\ lst.abl.block.action # Act("None")
            THEN lst.abl.block.action
            ELSE IF lst.a \notin lst.abl.allow.store THEN lst.abl.allow.action
            ELSE NoRecommend

\* A value on the blocklist and missing from the allowlist, the two lists
\* carrying different terminal actions
C21_Witness ==
    /\ lst.phase = "answered"
    /\ lst.a \in lst.abl.block.store
    /\ lst.a \notin lst.abl.allow.store
    /\ lst.abl.block.action = Act("Drop")
    /\ lst.abl.allow.action = Act("Ignore")
    /\ lst.rec_a = Act("Drop")

\* A recommendation that is neither absent nor Action::None
Terminal(r) == r # NoRecommend /\ r # Act("None")

\* C22: recommend_either(a, b) is recommend(a) when that is terminal and
\* recommend(b) otherwise
C22_EitherFirst ==
    lst.phase = "answered" =>
        /\ lst.either_ab = IF Terminal(lst.rec_a) THEN lst.rec_a ELSE lst.rec_b
        /\ lst.either_ba = IF Terminal(lst.rec_b) THEN lst.rec_b ELSE lst.rec_a

\* Lists and values for which recommend_either(a, b) and recommend_either(b, a)
\* differ
C22_Witness ==
    /\ lst.phase = "answered"
    /\ Terminal(lst.rec_a)
    /\ lst.either_ab # lst.either_ba

-----------------------------------------------------------------------------
(* Direction of a packet *)

\* The direction the rule gives: by the source first, then the destination,
\* Unknown when neither is the client IP or the client IP is of the other
\* IP version
DirectionRule ==
    IF dirn.client_ip_ver # dirn.ver THEN "Unknown"
    ELSE IF dirn.src = dirn.client_ip THEN "ClientToWan"
    ELSE IF dirn.src # dirn.client_ip /\ dirn.dst = dirn.client_ip
    THEN "WanToClient"
    ELSE "Unknown"

\* Swapping the addresses swaps ClientToWan and WanToClient
SwapSwaps ==
    /\ dirn.direction = "ClientToWan" => dirn.swapped = "WanToClient"
    /\ dirn.direction = "WanToClient" => dirn.swapped = "ClientToWan"

\* C23 as stated: the direction follows the rule, and swapping the source and
\* destination of any packet swaps ClientToWan and WanToClient
C23_DirectionSwapsAlways ==
    dirn.phase = "derived" =>
        /\ dirn.direction = DirectionRule
        /\ SwapSwaps

\* C23 as amended: the direction follows the rule, and swapping the source and
\* destination of a packet whose source and destination differ swaps
\* ClientToWan and WanToClient
C23_Direction ==
    dirn.phase = "derived" =>
        /\ dirn.direction = DirectionRule
        /\ dirn.src # dirn.dst => SwapSwaps

\* A packet from the client to another address: ClientToWan, and WanToClient
\* once swapped
C23_Witness ==
    /\ dirn.phase = "derived"
    /\ dirn.src = dirn.client_ip /\ dirn.dst # dirn.client_ip
    /\ dirn.ver = dirn.client_ip_ver
    /\ dirn.direction = "ClientToWan"
    /\ dirn.swapped = "WanToClient"

-----------------------------------------------------------------------------
(* The packet loop of run_nfq *)

\* C24: of two packets of one flow, the one that arrived first is handled
\* first, whichever queue each arrived on
C24_ArrivalOrder ==
    \A i, j \in DOMAIN nq.handled :
        (i < j /\ nq.handled[i].flow = nq.handled[j].flow)
            => nq.handled[i].id < nq.handled[j].id

\* Two packets of one flow have been handled, the second from the other queue
C24_Witness ==
    /\ nq.pos = "ipc"
    /\ Len(nq.handled) = 2
    /\ nq.handled[1].flow = nq.handled[2].flow
    /\ nq.handled[1].id = 2

Count(frames, frame) ==
    Cardinality({k \in DOMAIN frames : frames[k] = frame})

-----------------------------------------------------------------------------
(* The armed item of the Delayer *)

\* Payloads the task has received from the channel and not transmitted
Untransmitted ==
    {p \in DOMAIN submitted :
        /\ \A k \in DOMAIN queue : queue[k].payload # p
        /\ \A i \in DOMAIN transmitted : transmitted[i].payload # p}

\* C27: while the task runs and a payload it has received is not yet
\* transmitted, an item is armed, its deadline is the earliest among the armed
\* item, the heap and every untransmitted payload, and the timer is set to it
C27_EarliestArmed ==
    (dstate = "running" /\ Untransmitted # {}) =>
        /\ next_packet # NoPacket
        /\ \A q \in packet_queue : next_packet.time <= q.time
        /\ \A p \in Untransmitted : next_packet.time <= submitted[p].time
        /\ sleep_until = next_packet.time

\* Two payloads were received, the second with the earlier deadline, and
\* nothing is armed
C27_Witness ==
    /\ Len(submitted) = 2
    /\ submitted[2].time < submitted[1].time
    /\ queue = << >>
    /\ dstate = "running"
    /\ dlast = "recv"
    /\ next_packet = NoPacket

-----------------------------------------------------------------------------
(* Program::run line by line *)

\* The registers once lines 1..k ran one after the other
RECURSIVE RegsAfter(_, _, _, _, _)
RegsAfter(lines, k, field, regs, relax) ==
    IF k = 0 THEN regs
    ELSE LineRun(lines[k], field, RegsAfter(lines, k - 1, field, regs, relax),
                 relax).regs

\* Line i, reached with every line before it run, has a condition that holds
\* (or none) and returns AllowAll or TerminateAll
Decisive(lines, i, field, regs, relax) ==
    /\ lines[i].operation.op = "Return"
    /\ lines[i].operation.action \in {"AllowAll", "TerminateAll"}
    /\ \/ ~HasCondition(lines[i])
       \/ ConditionEval(lines[i].condition, field,
                        RegsAfter(lines, i - 1, field, regs, relax)) = "true"

\* Line i, reached with every line before it run, fails
Fails(lines, i, field, regs, relax) ==
    LineRun(lines[i], field, RegsAfter(lines, i - 1, field, regs, relax),
            relax).action = "Err"

Least(S) == CHOOSE m \in S : \A n \in S : m <= n

\* The run ends at the least line of stops, with the registers as the lines
\* before it left them, or runs every line and gives Allow
RunEndsAt(ran, lines, relax, stops) ==
    IF stops = {}
    THEN ran.result = [action |-> "Allow",
                       regs |-> RegsAfter(lines, Len(lines), ran.field,
                                          ran.before, relax)]
    ELSE LET m == Least(stops)
         IN /\ ran.result.regs = RegsAfter(lines, m - 1, ran.field,
                                           ran.before, relax)
            /\ ran.result.action =
                   IF Decisive(lines, m, ran.field, ran.before, relax)
                   THEN lines[m].operation.action ELSE "Err"

\* C28 as stated: the result of Program::run is the action of the first line
\* whose condition holds and that returns AllowAll or TerminateAll, with no
\* later line run, and Allow with every line run when there is no such line
C28_FirstReturnWins ==
    (pvm.phase = "loaded" /\ pvm.ran.called) =>
        RunEndsAt(pvm.ran, pvm.lines, pvm.relax,
                  {i \in DOMAIN pvm.lines :
                      Decisive(pvm.lines, i, pvm.ran.field, pvm.ran.before,
                               pvm.relax)})

\* C28 amended: Program::run stops at the first line that fails or that
\* returns AllowAll or TerminateAll under a condition that holds; its result
\* is that line's error or action, no later line runs, a Return(Allow) does
\* not stop it, and it gives Allow when no line stops it
C28_RunOrder ==
    (pvm.phase = "loaded" /\ pvm.ran.called) =>
        RunEndsAt(pvm.ran, pvm.lines, pvm.relax,
                  {i \in DOMAIN pvm.lines :
                      \/ Decisive(pvm.lines, i, pvm.ran.field, pvm.ran.before,
                                  pvm.relax)
                      \/ Fails(pvm.lines, i, pvm.ran.field, pvm.ran.before,
                               pvm.relax)})

\* A run passed a Return(Allow) and ended at the Return(AllowAll) after it,
\* and the Add behind that line left the registers alone
C28_Witness ==
    /\ pvm.phase = "loaded"
    /\ pvm.ran.called
    /\ pvm.lines = ProgramOf(<<3, 4, 6>>)
    /\ pvm.ran.result.action = "AllowAll"
    /\ pvm.ran.result.regs = pvm.ran.before

-----------------------------------------------------------------------------
(* The optimised program as a fixpoint of the rewrites *)

\* The register indices the inputs of the lines name
RegistersRead(lines) ==
    UNION { {input.index : input \in {x \in LineInputs(lines[i]) : x.k = "Register"}} :
            i \in 1..Len(lines) }

\* No rewrite of Program::optimise applies to the lines
NothingToRewrite(lines) ==
    /\ \A i \in 1..Len(lines) : lines[i].operation.op # "Noop"
    /\ \A i \in 1..Len(lines) :
          HasCondition(lines[i]) => ProvenValue(lines[i].condition) = "none"
    /\ \A i \in 1..Len(lines) : ~HasConstantMathValue(lines[i].operation)
    /\ FirstUnconditionalReturn(lines, 1) \in {0, Len(lines)}
    /\ WrittenRegSet(lines) \subseteq RegistersRead(lines)
    /\ RegistersRead(lines) \subseteq WrittenRegSet(lines)

\* C29: the program Program::optimise returns holds no Noop, no condition
\* and no arithmetic or logic operation over two literals, nothing after the
\* first unconditional Return, no write to a register that no line reads and
\* no read of a register that no line writes
C29_OptimisedIsFixpoint ==
    pvm.phase = "loaded" => NothingToRewrite(pvm.optimised)

\* The optimiser cut the program after an unconditional Return and left a
\* line that writes a register
C29_Witness ==
    /\ pvm.phase = "loaded"
    /\ pvm.runs = 0
    /\ Len(pvm.optimised) = 2
    /\ Len(pvm.lines) = 3
    /\ pvm.optimised[2].operation.op = "Return"
    /\ WriteRegisterIndex(pvm.optimised[1]) # -1

-----------------------------------------------------------------------------
(* Finished TCP flows *)

\* C30: a TCP flow is finished exactly when it has carried a FIN+ACK packet
\* from the initiator and one toward the initiator, also when they arrive
\* after the default action latched; a finished flow stays finished; and the
\* direction of a packet is its direction against the first packet of the flow
C30_FinishedIffBothFinAck ==
    /\ IsFinished(penv) <=> (plast.seen_from /\ plast.seen_to)
    /\ plast.was_finished => IsFinished(penv)
    /\ plast.pkt # NoFrame =>
          plast.direction = IF SameWay(plast.pkt, plast.first)
                            THEN "FromInitiator" ELSE "ToInitiator"

\* The flow latched and then carried a FIN+ACK packet each way
C30_Witness ==
    /\ penv.default_action # "Allow"
    /\ plast.seen_from
    /\ plast.seen_to
    /\ ~penv.fin_ack_from
    /\ ~penv.fin_ack_to

-----------------------------------------------------------------------------
(* The life of a flow entry *)

TableKeys == {PacketKey(pkt) : pkt \in TablePackets}

\* The flow of key has carried a FIN+ACK packet each way
Terminated(key) ==
    /\ key \in DOMAIN last.flows
    /\ last.flows[key].seen_from
    /\ last.flows[key].seen_to

\* C31: a flow entry is made by the first packet of its key that no list
\* settles, and once the flow has carried a FIN+ACK packet each way the entry
\* is eventually removed from the flow table (after which a packet of the key
\* is the first packet of a fresh entry and runs the init script again)
C31_TerminatedFlowReaped ==
    \A key \in TableKeys :
       (key \in DOMAIN connections /\ Terminated(key))
           ~> (key \notin DOMAIN connections)

\* A packet came for a flow that had carried a FIN+ACK packet each way: it
\* found the old entry and the init script did not run
C31_Witness ==
    /\ cfg.execution_mode = "Python"
    /\ last.key \in DOMAIN connections
    /\ Terminated(last.key)
    /\ ~last.pkt.finack
    /\ last.before # NoInfo
    /\ ~last.first
    /\ last.init = "skipped"

-----------------------------------------------------------------------------
(* The censorlang arm of TransportState::process *)

\* C32: in censorlang mode every packet that no list settles goes through
\* the ProgramEnv of its flow: the flow's packet counters advance by one,
\* and the action of the packet follows what the program decides (a
\* TerminateAll is not forwarded as None, an Allow or AllowAll is)
C32_ProgramDecides ==
    (cfg.execution_mode = "CensorLang" /\ last.pkt # NoFrame) =>
        LET env == connections[last.key].env.env
            was == IF last.before = NoInfo
                   THEN ProgramEnvNew(ConnectionIdentifier(last.pkt))
                   ELSE last.before.env.env
        IN /\ env.num_packets = was.num_packets + 1
           /\ env.total_processed = was.total_processed + 1
           /\ last.run = "TerminateAll" <=> last.action.type # "None"

\* In censorlang mode the second packet of a flow, for which the program
\* decides TerminateAll, was given None by an environment that has counted
\* no packet
C32_Witness ==
    /\ cfg.execution_mode = "CensorLang"
    /\ last.pkt # NoFrame
    /\ last.before # NoInfo
    /\ last.run = "TerminateAll"
    /\ last.action = Act("None")
    /\ connections[last.key].env.env.num_packets = 0

-----------------------------------------------------------------------------
(* iptables activation errors in run_nfq *)

\* An activation of run_nfq has failed
ActivationFailed ==
    /\ nq.pos \in {"activate", "loop", "returned", "error"}
    /\ \E i \in DOMAIN nq.rules : nq.rules[i] # "activated"

\* C33: when the activation of an iptables rule has failed, run_nfq is not
\* in its packet loop and has not come out of it: it returns the error
C33_ActivationErrorAborts ==
    ActivationFailed => nq.pos \notin {"loop", "returned"}

\* run_nfq is in its packet loop although the chain of the first rule does
\* not exist
C33_Witness ==
    /\ nq.pos = "loop"
    /\ nq.rules[1] = "IpTablesChainDoesNotExist"

-----------------------------------------------------------------------------
(* The retry buffer of wire mode *)

SeqRange(q) == {q[i] : i \in DOMAIN q}

\* C34: a call of forward_frame for a direction whose retry buffer holds a
\* frame reads no frame; if the resend fails the buffer holds the same frame
\* with the same length after; and a buffer that held a frame is empty only
\* after a call for its direction that resent that frame
C34_RetryFirst ==
    /\ wire.call.had # NoData =>
          /\ wire.call.read = << >>
          /\ wire.call.result.t # "Success" =>
                RetryGetData(wire.retry[wire.call.dir]) = wire.call.had
    /\ \A d \in WireDirs :
          (wire.call.dir # "none" /\ wire.call.before[d] # NoData
                /\ RetryGetData(wire.retry[d]) = NoData) =>
             /\ wire.call.dir = d
             /\ wire.call.result.t = "Success"
             /\ wire.sent[d] # << >>
             /\ wire.sent[d][Len(wire.sent[d])] = wire.call.before[d]

\* A resend failed with a new frame waiting on the source interface: the
\* buffer still holds the frame and the new frame was not read
C34_Witness ==
    /\ wire.call.had # NoData
    /\ wire.call.result.t = "TxFull"
    /\ wire.rx[wire.call.dir] # << >>
    /\ RetryGetData(wire.retry[wire.call.dir]) = wire.call.had

\* C39: every frame read from an interface and decided None or Ignore has
\* been transmitted to the other interface or is the frame of the
\* direction's retry buffer
C39_ForwardedOrKept ==
    wire.pos \in DOMAIN WireDirections =>
       \A d \in WireDirs : \A frame \in wire.forwardable[d] :
          \/ frame \in SeqRange(wire.sent[d])
          \/ RetryGetData(wire.retry[d]) = frame

\* A frame decided None or Ignore was read while the destination had no
\* transmit slot: forward_frame gave an error
C39_Witness ==
    /\ wire.pos \in DOMAIN WireDirections
    /\ wire.call.read # << >>
    /\ wire.call.result = WireErr
    /\ wire.call.read[1] \in wire.forwardable[wire.call.dir]
    /\ wire.call.read[1] \notin SeqRange(wire.sent[wire.call.dir])
    /\ wire.retry[wire.call.dir].size = NoSize

-----------------------------------------------------------------------------
(* Register writes across banks *)

\* The value as a value of the bank ty
Coerced(val, ty) ==
    IF ty = "Bool" THEN [k |-> "Bool", v |-> IF val.v # 0 THEN 1 ELSE 0]
    ELSE [k |-> "Int", v |-> val.v]

InBank(reg) == reg.index \in 0..(NumRegisters - 1)

\* The parts of C35 on refused writes: a write of another type without
\* relax_register_types fails with InvalidType, a write that passes the type
\* check to an index outside the bank fails with InvalidIndex, and neither
\* changes a register
RefusedWrites ==
    /\ (~vmu.relax /\ vmu.reg.ty # vmu.val.k) =>
          /\ ~vmu.ok /\ vmu.err = "InvalidType" /\ vmu.after = vmu.regs
    /\ ((vmu.relax \/ vmu.reg.ty = vmu.val.k) /\ ~InBank(vmu.reg)) =>
          /\ ~vmu.ok /\ vmu.err = "InvalidIndex" /\ vmu.after = vmu.regs

\* C35 as stated: refused writes as above, and with relax_register_types a
\* write into the bank succeeds and a read of the target register gives the
\* written value coerced to the type of the target register
C35_RelaxedWriteCoerces ==
    vmu.phase = "written" =>
       /\ RefusedWrites
       /\ (vmu.relax /\ InBank(vmu.reg)) =>
             /\ vmu.ok
             /\ vmu.read = Coerced(vmu.val, vmu.reg.ty)

\* C35 amended: refused writes as above, and with relax_register_types a
\* write into the bank succeeds and stores the value in the register of the
\* same index in the bank of the value's type: a read of that register gives
\* the written value, and a target register of another type keeps its value
C35_RelaxedWriteOwnBank ==
    vmu.phase = "written" =>
       /\ RefusedWrites
       /\ (vmu.relax /\ InBank(vmu.reg)) =>
             /\ vmu.ok
             /\ vmu.read_same_bank = vmu.val
             /\ vmu.reg.ty # vmu.val.k =>
                   vmu.read = RegistersGet(vmu.regs, vmu.reg)

\* With relax_register_types the Int 5 was written to a Bool register that
\* held false
C35_Witness ==
    /\ vmu.phase = "written"
    /\ vmu.relax
    /\ vmu.reg.ty = "Bool"
    /\ InBank(vmu.reg)
    /\ vmu.val = [k |-> "Int", v |-> 5]
    /\ vmu.regs.bool[vmu.reg.index] = 0
    /\ vmu.ok

-----------------------------------------------------------------------------
(* Fields that cannot be extracted *)

\* The run went through both lines
RanOn ==
    /\ vmu.result.action = "Allow"
    /\ vmu.result.regs.int[1] = 1

\* The run stopped with the error and no line wrote a register
Aborted ==
    /\ vmu.result.action = "Err"
    /\ vmu.result.regs = RegistersNew

\* C36 as stated: when the field cannot be extracted from the packet, with
\* field_default_on_error the field is Bool(false) and the run goes on, and
\* without it the run stops with the error and no later line is run
C36_DefaultIsFalse ==
    (vmu.phase = "ran" /\ vmu.extracted.k = "Err") =>
       IF vmu.default_on_error
       THEN vmu.value = BoolV(FALSE) /\ RanOn
       ELSE vmu.value = vmu.extracted /\ Aborted

\* C36 amended: as stated, except that the timestamp of a packet without
\* one is Float(0.0) under field_default_on_error
C36_DefaultOnError ==
    (vmu.phase = "ran" /\ vmu.extracted.k = "Err") =>
       IF vmu.default_on_error
       THEN /\ vmu.value = IF vmu.field = "Timestamp" THEN FloatV(0)
                           ELSE BoolV(FALSE)
            /\ RanOn
       ELSE vmu.value = vmu.extracted /\ Aborted

\* A TCP field was read from a UDP packet under field_default_on_error and
\* the first line, whose condition compares it with false, wrote its register
C36_Witness ==
    /\ vmu.phase = "ran"
    /\ vmu.field = "Tcp.Seq"
    /\ vmu.pkt.proto = "Udp"
    /\ vmu.default_on_error
    /\ vmu.result.regs.int[0] = 1
    /\ vmu.result.regs.int[1] = 1

-----------------------------------------------------------------------------
(* Arithmetic of the program VM *)

\* The value kind of the result of a numeric operation on lhs and rhs
ResultKind(lhs, rhs) ==
    IF lhs.k = "Float" \/ rhs.k = "Float" THEN "Float" ELSE "Int"

\* q is lhs / rhs rounded towards zero, m is what is left over
QuotientOf(q, lhs, rhs) ==
    \E m \in (-Abs(rhs) + 1)..(Abs(rhs) - 1) :
       /\ lhs = q * rhs + m
       /\ (m = 0 \/ (m < 0) = (lhs < 0))
RemainderOf(m, lhs, rhs) ==
    /\ Abs(m) < Abs(rhs)
    /\ (m = 0 \/ (m < 0) = (lhs < 0))
    /\ (lhs - m) % Abs(rhs) = 0

\* C37: Div and Mod by a zero of any type give the zero of the result type
\* and by anything else give the quotient and the remainder
C37_DivModTotal ==
    (vmu.phase = "called" /\ vmu.op \in {"Div", "Mod"}) =>
       /\ vmu.result.k = ResultKind(vmu.lhs, vmu.rhs)
       /\ IF vmu.rhs.v = 0 THEN vmu.result.v = 0
          ELSE IF vmu.op = "Div"
          THEN QuotientOf(vmu.result.v, vmu.lhs.v, vmu.rhs.v)
          ELSE RemainderOf(vmu.result.v, vmu.lhs.v, vmu.rhs.v)

\* The least Int was taken modulo -1
C37_Witness ==
    /\ vmu.phase = "called"
    /\ vmu.op = "Mod"
    /\ vmu.lhs = IntV(IntMin)
    /\ vmu.rhs = IntV(-1)

\* C38: every call of MathOperator::call returns a value
C38_MathReturns ==
    vmu.phase = "called" => vmu.result.k \in {"Int", "Bool", "Float"}

\* The least Int was divided by -1 in a build without overflow checks
C38_Witness ==
    /\ vmu.phase = "called"
    /\ vmu.op = "Div"
    /\ vmu.lhs = IntV(IntMin)
    /\ vmu.rhs = IntV(-1)
    /\ ~vmu.overflow_checks

-----------------------------------------------------------------------------
(* Allow lists and the two endpoints of a packet *)

\* The allowlist carries a terminal action and the blocklist stops neither
\* value
AllowListDecides ==
    /\ lst.phase = "answered"
    /\ Terminal(lst.abl.allow.action)
    /\ IsContinue(BlockListRecommend(lst.abl.block, lst.a))
    /\ IsContinue(BlockListRecommend(lst.abl.block, lst.b))

\* C40: under an allowlist with a terminal action recommend_either lets the
\* packet continue only when both values are on the allowlist, and gives the
\* allowlist's action when exactly one of them is
C40_BothListed ==
    AllowListDecides =>
       LET listed_a == lst.a \in lst.abl.allow.store
           listed_b == lst.b \in lst.abl.allow.store
       IN /\ IsContinue(lst.either_ab) <=> (listed_a /\ listed_b)
          /\ IsContinue(lst.either_ba) <=> (listed_a /\ listed_b)
          /\ (listed_a # listed_b) =>
                /\ lst.either_ab = lst.abl.allow.action
                /\ lst.either_ba = lst.abl.allow.action

\* The second value is on the allowlist, the first is not, and the packet is
\* dropped whichever value is asked about first
C40_Witness ==
    /\ AllowListDecides
    /\ lst.abl.block.store = {}
    /\ lst.a \notin lst.abl.allow.store
    /\ lst.b \in lst.abl.allow.store
    /\ lst.abl.allow.action = Act("Drop")
    /\ lst.either_ab = Act("Drop")
    /\ lst.either_ba = Act("Drop")

====
